---- MODULE Spec2Model ----
(***************************************************************************)
(* Access-control and dual-persistence core of digital-key-backend.        *)
(*                                                                         *)
(* Entity store: users, machines, digital keys, user-machine permissions   *)
(* (SQLAlchemy models over the SQLite database named in core/config.py).   *)
(* Mirror store: one JSON snapshot file per digital key and per permission *)
(* plus one index file per bucket (utils/cloud.py).                        *)
(*                                                                         *)
(* Spec     : every request handler runs to completion (one at a time).    *)
(* SpecConc : Grant requests of several workers interleave at their        *)
(*            database and file-system steps.                              *)
(***************************************************************************)
EXTENDS Integers, Sequences, FiniteSets, TLC

\* ------------------------------------------------------------------ bounds
MaxUsers == 1
MaxMachines == 2
MaxKeys == 1
MaxPerms == 2
MaxClock == 2
NumWorkers == 2

UserIds == 1..MaxUsers
MachineIds == 1..MaxMachines
KeyIds == 1..MaxKeys
PermIds == 1..MaxPerms
Workers == 1..NumWorkers

\* PermissionLevel values a request may carry (two of the four enum members).
Levels == {"read", "write"}
\* key_name values a request may carry.
KeyNames == {"k 1", "k2"}

\* revoked_at IS NULL; timestamps are the clock values 1..MaxClock.
NULL == 0

VARIABLES
    users,      \* ids of the rows of table users
    machines,   \* ids of the rows of table machines
    machineActive, \* ids of the machines whose is_active column is 1
    keys,       \* table digital_keys: id -> [key_name, machine_id]
    perms,      \* table user_machine_permissions: id -> row
    now,        \* datetime.utcnow()
    userRows,   \* columns username and email of table users, where tracked
    machineNames, \* column machine_name of table machines, where tracked
    keyValues,  \* column key_value of table digital_keys, where tracked
    permFiles,  \* permissions bucket: id -> snapshot stored in perm_{id}.json
    permIndex,  \* permissions/.metadata/permissions_index.json: ids, in file order
    keyFiles,   \* digital-keys bucket: file name -> snapshot
    keyIndex,   \* digital-keys/.metadata/index.json: entries, in file order
    last,       \* the last request served and the outcome returned to its caller
    pc,         \* SpecConc: each worker's position inside its Grant request
    req         \* SpecConc: each worker's Grant request body

vars == <<users, machines, machineActive, keys, perms, now, permFiles, permIndex,
          keyFiles, keyIndex, last, pc, req, userRows, machineNames, keyValues>>

\* ----------------------------------------------------------------- helpers
MaxOf(S) == CHOOSE x \in S : \A y \in S : y <= x

\* INTEGER PRIMARY KEY of SQLite: the new rowid is the largest one in use + 1.
NextId(dom) == IF dom = {} THEN 1 ELSE MaxOf(dom) + 1

Remove(f, x) == [y \in (DOMAIN f) \ {x} |-> f[y]]

Put(f, x, v) == [y \in (DOMAIN f) \cup {x} |-> IF y = x THEN v ELSE f[y]]

\* [e for e in index if e["id"] != id]
RECURSIVE WithoutId(_, _)
WithoutId(s, id) ==
    IF s = <<>> THEN <<>>
    ELSE IF Head(s).id = id THEN WithoutId(Tail(s), id)
         ELSE <<Head(s)>> \o WithoutId(Tail(s), id)

\* key_name.replace(' ', '_')
Normalize(name) == IF name = "k 1" THEN "k_1" ELSE name

\* f"{key_id}_{key_name.replace(' ', '_')}.json"
KeyFileName(id, name) == <<id, Normalize(name)>>

\* ------------------------------------------------------------ mirror store
\* The snapshot written for a permission row (permission_data of the callers).
PermSnapshot(row) ==
    [user_id |-> row.user_id, machine_id |-> row.machine_id,
     digital_key_id |-> row.digital_key_id,
     permission_level |-> row.permission_level, is_active |-> row.is_active]

\* The snapshot written for a digital key row (original_data of the callers).
KeySnapshot(row) == [key_name |-> row.key_name, machine_id |-> row.machine_id]

\* _update_permission_metadata_index: drop the id's old entry, append a new one.
UpdatePermissionMetadataIndex(index, id) ==
    Append(WithoutId(index, id), [id |-> id])

\* _remove_permission_from_metadata_index
RemovePermissionFromMetadataIndex(index, id) == WithoutId(index, id)

\* upload_permission_to_cloud: <<files, index>> after the call.
UploadPermissionToCloud(files, index, data, id) ==
    <<Put(files, id, data), UpdatePermissionMetadataIndex(index, id)>>

\* update_permission_in_cloud: rewrites perm_{id}.json only if it exists and
\* never touches the index.
UpdatePermissionInCloud(files, index, data, id) ==
    IF id \in DOMAIN files THEN <<Put(files, id, data), index>>
    ELSE <<files, index>>

\* DeletePermissionFromCloud that cleans the index even when the file is
\* missing.
DeletePermissionFromCloud_CleansIndex(files, index, id) ==
    IF id \in DOMAIN files
    THEN <<Remove(files, id), RemovePermissionFromMetadataIndex(index, id)>>
    ELSE <<files, RemovePermissionFromMetadataIndex(index, id)>>

\* DeletePermissionFromCloud that removes the file and leaves the index entry.
DeletePermissionFromCloud_KeepsIndex(files, index, id) ==
    IF id \in DOMAIN files THEN <<Remove(files, id), index>> ELSE <<files, index>>

\* delete_permission_from_cloud: a missing file returns False before the index
\* is looked at.
DeletePermissionFromCloud(files, index, id) ==
    IF id \in DOMAIN files
    THEN <<Remove(files, id), RemovePermissionFromMetadataIndex(index, id)>>
    ELSE <<files, index>>

\* DownloadPermissionFromCloud that looks the id up in the index first.
DownloadPermissionFromCloud_ByIndex(files, index, id) ==
    IF id \in DOMAIN files /\ (\E i \in DOMAIN index : index[i].id = id)
    THEN <<files[id]>> ELSE <<>>

\* download_permission_from_cloud: the snapshot, or <<>> for None; the
\* index file is in reach and is not opened.
DownloadPermissionFromCloud(files, index, id) ==
    IF id \in DOMAIN files THEN <<files[id]>> ELSE <<>>

\* The boolean delete_permission_from_cloud returns.
DeletePermissionResult(files, index, id) ==
    IF id \in DOMAIN files THEN "True" ELSE "False"

\* UpdateMetadataIndex that appends without dropping the id's old entry.
UpdateMetadataIndex_Appends(index, id, name) ==
    Append(index, [id |-> id, key_name |-> name])

\* _update_metadata_index
UpdateMetadataIndex(index, id, name) ==
    Append(WithoutId(index, id), [id |-> id, key_name |-> name])

\* _remove_from_metadata_index
RemoveFromMetadataIndex(index, id) == WithoutId(index, id)

\* upload_data_to_cloud
UploadDataToCloud(files, index, data, id, name) ==
    <<Put(files, KeyFileName(id, name), data), UpdateMetadataIndex(index, id, name)>>

\* delete_data_from_cloud
DeleteDataFromCloud(files, index, id, name) ==
    IF KeyFileName(id, name) \in DOMAIN files
    THEN <<Remove(files, KeyFileName(id, name)), RemoveFromMetadataIndex(index, id)>>
    ELSE <<files, index>>

\* The boolean delete_data_from_cloud returns.
DeleteDataResult(files, index, id, name) ==
    IF KeyFileName(id, name) \in DOMAIN files THEN "True" ELSE "False"

\* download_data_from_cloud: the stored original_data, or <<>> for None; the
\* index file is in reach and is not opened.
DownloadDataFromCloud(files, index, id, name) ==
    IF KeyFileName(id, name) \in DOMAIN files
    THEN <<files[KeyFileName(id, name)]>> ELSE <<>>

\* ListAllUploads with a recursive glob, which also returns the index file.
ListAllUploads_WithIndex(files, index) ==
    {[id |-> f[1], original_data |-> files[f]] : f \in DOMAIN files}
        \cup {[id |-> 0, original_data |-> index]}

\* list_all_uploads: the content of every *.json file of the digital-keys
\* bucket directory (the index lives in the .metadata subdirectory, which
\* the glob does not enter, so the index is not read).
ListAllUploads(files, index) ==
    {[id |-> f[1], original_data |-> files[f]] : f \in DOMAIN files}

\* list_all_permissions
ListAllPermissions(files, index) ==
    {[id |-> p, original_data |-> files[p]] : p \in DOMAIN files}

\* -------------------------------------------------------------------- Init
\* No request served yet.
Idle == [op |-> "none", args |-> <<>>, outcome |-> "none", id |-> 0]

\* A worker that serves no Grant holds no request body.
NoReq == [user_id |-> 0, machine_id |-> 0, digital_key_id |-> 0,
          permission_level |-> "read", id |-> 0]

Init ==
    /\ users = {}
    /\ machines = {}
    /\ machineActive = {}
    /\ keys = <<>>
    /\ perms = <<>>
    /\ now = 1
    /\ permFiles = <<>>
    /\ permIndex = <<>>
    /\ keyFiles = <<>>
    /\ keyIndex = <<>>
    /\ last = Idle
    /\ pc = [w \in Workers |-> "idle"]
    /\ req = [w \in Workers |-> NoReq]
    /\ userRows = <<>>
    /\ machineNames = <<>>
    /\ keyValues = <<>>

\* What the transport layer hands back: the request's name, the body of a
\* Grant (args), the outcome, and the permission id the request named or made.
Served(op, args, outcome, id) ==
    last' = [op |-> op, args |-> args, outcome |-> outcome, id |-> id]

\* ------------------------------------------------------------------- clock
\* Time passes between requests; datetime.utcnow() never goes back. Spec and
\* SpecConc serve all their requests at one clock value and leave Tick out.
Tick ==
    /\ now < MaxClock
    /\ now' = now + 1
    /\ UNCHANGED <<userRows, machineNames, keyValues, users, machines, machineActive, keys, perms, permFiles, permIndex,
                   keyFiles, keyIndex, last, pc, req>>

\* ------------------------------------------------------ users and machines
\* POST /users (the username/email columns are not part of this model).
CreateUser ==
    /\ NextId(users) \in UserIds
    /\ users' = users \cup {NextId(users)}
    /\ Served("create_user", <<>>, "ok", 0)
    /\ UNCHANGED <<userRows, machineNames, keyValues, machines, machineActive, keys, perms, now, permFiles, permIndex,
                   keyFiles, keyIndex, pc, req>>

\* DELETE /users/{user_id}: no check for permissions that reference the user.
DeleteUser(u) ==
    /\ users' = users \ {u}
    /\ userRows' = Remove(userRows, u)
    /\ Served("delete_user", <<>>, IF u \in users THEN "ok" ELSE "NotFound", 0)
    /\ UNCHANGED <<machineNames, keyValues, machines, machineActive, keys, perms, now, permFiles, permIndex,
                   keyFiles, keyIndex, pc, req>>

\* POST /machines
CreateMachine ==
    /\ NextId(machines) \in MachineIds
    /\ machines' = machines \cup {NextId(machines)}
    /\ machineActive' = machineActive \cup {NextId(machines)}
    /\ Served("create_machine", <<>>, "ok", 0)
    /\ UNCHANGED <<userRows, machineNames, keyValues, users, keys, perms, now, permFiles, permIndex,
                   keyFiles, keyIndex, pc, req>>

\* DELETE /machines/{machine_id}: keys and permissions of the machine stay.
DeleteMachine(m) ==
    /\ machines' = machines \ {m}
    /\ machineActive' = machineActive \ {m}
    /\ machineNames' = Remove(machineNames, m)
    /\ Served("delete_machine", <<>>, IF m \in machines THEN "ok" ELSE "NotFound", 0)
    /\ UNCHANGED <<userRows, keyValues, users, keys, perms, now, permFiles, permIndex,
                   keyFiles, keyIndex, pc, req>>

\* UpdateMachine that revokes the machine's permissions when it deactivates it.
UpdateMachine_Cascades(m, act) ==
    /\ machineActive' = IF m \in machines /\ act # <<>>
                         THEN IF act[1] = 1 THEN machineActive \cup {m}
                              ELSE machineActive \ {m}
                         ELSE machineActive
    /\ perms' = IF m \in machines /\ act = <<0>>
                 THEN [p \in DOMAIN perms |->
                         IF perms[p].machine_id = m
                         THEN [perms[p] EXCEPT !.is_active = FALSE, !.revoked_at = now]
                         ELSE perms[p]]
                 ELSE perms
    /\ Served("update_machine", <<>>, IF m \in machines THEN "ok" ELSE "NotFound", 0)
    /\ UNCHANGED <<userRows, machineNames, keyValues, users, machines, keys, now, permFiles, permIndex,
                   keyFiles, keyIndex, pc, req>>

\* PUT /machines/{machine_id}: act is the is_active field of the body (<<>>
\* for None, else 1 or 0); the other columns are not part of this model. Keys
\* and permissions of the machine are not looked at.
UpdateMachine(m, act) ==
    /\ machineActive' = IF m \in machines /\ act # <<>>
                         THEN IF act[1] = 1 THEN machineActive \cup {m}
                              ELSE machineActive \ {m}
                         ELSE machineActive
    /\ Served("update_machine", <<>>, IF m \in machines THEN "ok" ELSE "NotFound", 0)
    /\ UNCHANGED <<userRows, machineNames, keyValues, users, machines, keys, perms, now, permFiles, permIndex,
                   keyFiles, keyIndex, pc, req>>

\* PUT /users/{user_id}: the username, user_type and email columns are not
\* part of this model; permissions of the user are not looked at.
UpdateUser(u) ==
    /\ Served("update_user", <<>>, IF u \in users THEN "ok" ELSE "NotFound", 0)
    /\ UNCHANGED <<userRows, machineNames, keyValues, users, machines, machineActive, keys, perms, now, permFiles,
                   permIndex, keyFiles, keyIndex, pc, req>>

\* ------------------------------------------------------------ digital keys
\* What create_digital_key returns or raises: the machine check of lines 9-11,
\* then the unique index on key_name at commit.
CreateDigitalKeyOutcome(name, m) ==
    IF m \notin machines THEN "MachineNotFound"
    ELSE IF \E k \in DOMAIN keys : keys[k].key_name = name THEN "IntegrityError"
    ELSE "ok"

\* POST /digital-keys
CreateDigitalKey(name, m) ==
    LET out == CreateDigitalKeyOutcome(name, m)
        id  == NextId(DOMAIN keys)
        row == [key_name |-> name, machine_id |-> m]
        mir == UploadDataToCloud(keyFiles, keyIndex, KeySnapshot(row), id, name)
    IN  /\ out = "ok" => id \in KeyIds
        /\ keys' = IF out = "ok" THEN Put(keys, id, row) ELSE keys
        /\ keyFiles' = IF out = "ok" THEN mir[1] ELSE keyFiles
        /\ keyIndex' = IF out = "ok" THEN mir[2] ELSE keyIndex
        /\ Served("create_digital_key", <<>>, out, 0)
        /\ UNCHANGED <<userRows, machineNames, keyValues, users, machines, machineActive, perms, now, permFiles, permIndex, pc, req>>

\* What update_digital_key returns or raises: key lookup (44-46), machine
\* check (49-51), then the unique index on key_name at commit (61).
UpdateDigitalKeyOutcome(k, name, m) ==
    IF k \notin DOMAIN keys THEN "NotFound"
    ELSE IF m \notin machines THEN "MachineNotFound"
    ELSE IF \E j \in (DOMAIN keys) \ {k} : keys[j].key_name = name
         THEN "IntegrityError"
    ELSE "ok"

\* UpdateDigitalKey that deletes the old snapshot before it checks the machine.
UpdateDigitalKey_DeletesFirst(k, name, m) ==
    LET out == UpdateDigitalKeyOutcome(k, name, m)
        row == [key_name |-> name, machine_id |-> m]
        del == DeleteDataFromCloud(keyFiles, keyIndex, k, keys[k].key_name)
        mir == UploadDataToCloud(del[1], del[2], KeySnapshot(row), k, name)
    IN  /\ keys' = IF out = "ok" THEN Put(keys, k, row) ELSE keys
        /\ keyFiles' = CASE out = "ok" -> mir[1]
                         [] out \in {"IntegrityError", "MachineNotFound"} -> del[1]
                         [] OTHER -> keyFiles
        /\ keyIndex' = CASE out = "ok" -> mir[2]
                         [] out \in {"IntegrityError", "MachineNotFound"} -> del[2]
                         [] OTHER -> keyIndex
        /\ Served("update_digital_key", <<>>, out, 0)
        /\ UNCHANGED <<userRows, machineNames, keyValues, users, machines, machineActive, perms, now, permFiles, permIndex, pc, req>>

\* UpdateDigitalKey that uploads the new snapshot and leaves the old one.
UpdateDigitalKey_KeepsOld(k, name, m) ==
    LET out == UpdateDigitalKeyOutcome(k, name, m)
        row == [key_name |-> name, machine_id |-> m]
        mir == UploadDataToCloud(keyFiles, keyIndex, KeySnapshot(row), k, name)
    IN  /\ keys' = IF out = "ok" THEN Put(keys, k, row) ELSE keys
        /\ keyFiles' = IF out = "ok" THEN mir[1] ELSE keyFiles
        /\ keyIndex' = IF out = "ok" THEN mir[2] ELSE keyIndex
        /\ Served("update_digital_key", <<>>, out, 0)
        /\ UNCHANGED <<userRows, machineNames, keyValues, users, machines, machineActive, perms, now, permFiles, permIndex, pc, req>>

\* PUT /digital-keys/{key_id}: the old snapshot is deleted before the commit,
\* so it is gone even when the commit raises; permissions are not looked at.
UpdateDigitalKey(k, name, m) ==
    LET out == UpdateDigitalKeyOutcome(k, name, m)
        row == [key_name |-> name, machine_id |-> m]
        del == DeleteDataFromCloud(keyFiles, keyIndex, k, keys[k].key_name)
        mir == UploadDataToCloud(del[1], del[2], KeySnapshot(row), k, name)
    IN  /\ keys' = IF out = "ok" THEN Put(keys, k, row) ELSE keys
        /\ keyFiles' = CASE out = "ok" -> mir[1]
                         [] out = "IntegrityError" -> del[1]
                         [] OTHER -> keyFiles
        /\ keyIndex' = CASE out = "ok" -> mir[2]
                         [] out = "IntegrityError" -> del[2]
                         [] OTHER -> keyIndex
        /\ Served("update_digital_key", <<>>, out, 0)
        /\ UNCHANGED <<userRows, machineNames, keyValues, users, machines, machineActive, perms, now, permFiles, permIndex, pc, req>>

\* DELETE /digital-keys/{key_id}: snapshot first, then the row; permissions
\* that reference the key stay.
DeleteDigitalKey(k) ==
    LET found == k \in DOMAIN keys
        del   == DeleteDataFromCloud(keyFiles, keyIndex, k, keys[k].key_name)
    IN  /\ keys' = IF found THEN Remove(keys, k) ELSE keys
        /\ keyFiles' = IF found THEN del[1] ELSE keyFiles
        /\ keyIndex' = IF found THEN del[2] ELSE keyIndex
        /\ keyValues' = Remove(keyValues, k)
        /\ Served("delete_digital_key", <<>>, IF found THEN "ok" ELSE "NotFound", 0)
        /\ UNCHANGED <<userRows, machineNames, users, machines, machineActive, perms, now, permFiles, permIndex, pc, req>>

\* ------------------------------------------------------------- permissions
\* GrantApiCheck without the look-up of an existing row of the pair.
GrantApiCheck_NoExistingCheck(u, m) ==
    IF u \notin users THEN "UserNotFound"
    ELSE IF m \notin machines THEN "MachineNotFound"
    ELSE "ok"

\* grant_access, the checks made by the endpoint before it calls the service:
\* user, machine, then any permission row of the pair (is_active is not in
\* the filter).
GrantApiCheck(u, m) ==
    IF u \notin users THEN "UserNotFound"
    ELSE IF m \notin machines THEN "MachineNotFound"
    ELSE IF \E p \in DOMAIN perms :
                perms[p].user_id = u /\ perms[p].machine_id = m
         THEN "DuplicateActiveGrant"
    ELSE "ok"

\* GrantServiceCheck without the comparison of the key's machine.
GrantServiceCheck_NoBindingCheck(m, k) ==
    IF k \notin DOMAIN keys THEN "KeyNotFound" ELSE "ok"

\* grant_user_machine_access, the checks made by the service before the insert.
GrantServiceCheck(m, k) ==
    IF k \notin DOMAIN keys THEN "KeyNotFound"
    ELSE IF keys[k].machine_id # m THEN "KeyMachineMismatch"
    ELSE "ok"

\* The outcome of POST /permissions/grant for a request body.
GrantOutcome(u, m, k) ==
    IF GrantApiCheck(u, m) # "ok" THEN GrantApiCheck(u, m)
    ELSE GrantServiceCheck(m, k)

\* What the caller of POST /permissions/grant sees for each failure: the
\* status code and the detail text (ids left out of the two service texts).
HttpResponse(outcome) ==
    CASE outcome = "UserNotFound" -> <<404, "User not found">>
      [] outcome = "MachineNotFound" -> <<404, "Machine not found">>
      [] outcome = "DuplicateActiveGrant" ->
            <<400, "Permission already exists for this user-machine pair">>
      [] outcome = "KeyNotFound" -> <<400, "Digital key with ID does not exist">>
      [] outcome = "KeyMachineMismatch" ->
            <<400, "Digital key does not belong to machine">>
      [] OTHER -> <<200, "">>

\* NewPermission with revoked_at stamped at creation.
NewPermission_Stamped(u, m, k, l) ==
    [user_id |-> u, machine_id |-> m, digital_key_id |-> k,
     permission_level |-> l, is_active |-> TRUE,
     created_at |-> now, revoked_at |-> now]

\* The row grant_user_machine_access inserts.
NewPermission(u, m, k, l) ==
    [user_id |-> u, machine_id |-> m, digital_key_id |-> k,
     permission_level |-> l, is_active |-> TRUE,
     created_at |-> now, revoked_at |-> NULL]

\* Grant that writes the snapshot before it validates the request.
Grant_UploadsFirst(u, m, k, l) ==
    LET out == GrantOutcome(u, m, k)
        id  == NextId(DOMAIN perms)
        row == NewPermission(u, m, k, l)
        mir == UploadPermissionToCloud(permFiles, permIndex, PermSnapshot(row), id)
    IN  /\ id \in PermIds
        /\ perms' = IF out = "ok" THEN Put(perms, id, row) ELSE perms
        /\ permFiles' = mir[1]
        /\ permIndex' = mir[2]
        /\ Served("grant", <<u, m, k>>, out, IF out = "ok" THEN id ELSE 0)
        /\ UNCHANGED <<userRows, machineNames, keyValues, users, machines, machineActive, keys, now, keyFiles, keyIndex, pc, req>>

\* POST /permissions/grant, start to end.
Grant(u, m, k, l) ==
    LET out == GrantOutcome(u, m, k)
        id  == NextId(DOMAIN perms)
        row == NewPermission(u, m, k, l)
        mir == UploadPermissionToCloud(permFiles, permIndex, PermSnapshot(row), id)
    IN  /\ out = "ok" => id \in PermIds
        /\ perms' = IF out = "ok" THEN Put(perms, id, row) ELSE perms
        /\ permFiles' = IF out = "ok" THEN mir[1] ELSE permFiles
        /\ permIndex' = IF out = "ok" THEN mir[2] ELSE permIndex
        /\ Served("grant", <<u, m, k>>, out, IF out = "ok" THEN id ELSE 0)
        /\ UNCHANGED <<userRows, machineNames, keyValues, users, machines, machineActive, keys, now, keyFiles, keyIndex, pc, req>>

\* UpdatedPermission that stamps revoked_at when it deactivates the row.
UpdatedPermission_Stamps(row, lvl, act) ==
    [row EXCEPT !.permission_level = IF lvl # "None" THEN lvl ELSE @,
                !.is_active = IF act # <<>> THEN act[1] ELSE @,
                !.revoked_at = IF act = <<FALSE>> THEN now ELSE @]

\* The row update_permission commits: a field of the body that is None (the
\* level "None", the flag <<>>) keeps its value.
UpdatedPermission(row, lvl, act) ==
    [row EXCEPT !.permission_level = IF lvl # "None" THEN lvl ELSE @,
                !.is_active = IF act # <<>> THEN act[1] ELSE @]

\* PUT /permissions/{permission_id}
UpdatePermission(p, lvl, act) ==
    LET found == p \in DOMAIN perms
        row   == UpdatedPermission(perms[p], lvl, act)
        mir   == UpdatePermissionInCloud(permFiles, permIndex, PermSnapshot(row), p)
    IN  /\ perms' = IF found THEN Put(perms, p, row) ELSE perms
        /\ permFiles' = IF found THEN mir[1] ELSE permFiles
        /\ permIndex' = IF found THEN mir[2] ELSE permIndex
        /\ Served("update_permission", <<>>, IF found THEN "ok" ELSE "NotFound", p)
        /\ UNCHANGED <<userRows, machineNames, keyValues, users, machines, machineActive, keys, now, keyFiles, keyIndex, pc, req>>

\* RevokedPermission that leaves revoked_at alone.
RevokedPermission_NoStamp(row) == [row EXCEPT !.is_active = FALSE]

\* RevokedPermission that keeps the stamp of a row already revoked.
RevokedPermission_Idempotent(row) ==
    [row EXCEPT !.is_active = FALSE,
                !.revoked_at = IF @ = NULL THEN now ELSE @]

\* The row revoke_permission and revoke_user_machine_access commit.
RevokedPermission(row) ==
    [row EXCEPT !.is_active = FALSE, !.revoked_at = now]

\* POST /permissions/{permission_id}/revoke
RevokePermission(p) ==
    LET found == p \in DOMAIN perms
        row   == RevokedPermission(perms[p])
        mir   == UpdatePermissionInCloud(permFiles, permIndex, PermSnapshot(row), p)
    IN  /\ perms' = IF found THEN Put(perms, p, row) ELSE perms
        /\ permFiles' = IF found THEN mir[1] ELSE permFiles
        /\ permIndex' = IF found THEN mir[2] ELSE permIndex
        /\ Served("revoke_permission", <<>>, IF found THEN "ok" ELSE "NotFound", p)
        /\ UNCHANGED <<userRows, machineNames, keyValues, users, machines, machineActive, keys, now, keyFiles, keyIndex, pc, req>>

\* The rows the query of revoke_user_machine_access matches; first() returns
\* one of them (no ORDER BY, no is_active filter).
UserMachineRows(u, m) ==
    {p \in DOMAIN perms : perms[p].user_id = u /\ perms[p].machine_id = m}

\* RevokeUserMachineAccess that mirrors the revoked row as revoke_permission does.
RevokeUserMachineAccess_Mirrors(u, m) ==
    /\ IF UserMachineRows(u, m) = {}
       THEN /\ perms' = perms
            /\ UNCHANGED <<userRows, machineNames, keyValues, permFiles, permIndex>>
            /\ Served("revoke_user_machine_access", <<u, m>>, "NotFound", 0)
       ELSE \E p \in UserMachineRows(u, m) :
            LET row == RevokedPermission(perms[p])
                mir == UpdatePermissionInCloud(permFiles, permIndex, PermSnapshot(row), p)
            IN  /\ perms' = Put(perms, p, row)
                /\ permFiles' = mir[1]
                /\ permIndex' = mir[2]
                /\ Served("revoke_user_machine_access", <<u, m>>, "ok", p)
    /\ UNCHANGED <<userRows, machineNames, keyValues, users, machines, machineActive, keys, now, keyFiles, keyIndex, pc, req>>

\* POST /permissions/user/{user_id}/machine/{machine_id}/revoke: no mirror call.
RevokeUserMachineAccess(u, m) ==
    /\ IF UserMachineRows(u, m) = {}
       THEN /\ perms' = perms
            /\ Served("revoke_user_machine_access", <<u, m>>, "NotFound", 0)
       ELSE \E p \in UserMachineRows(u, m) :
            /\ perms' = Put(perms, p, RevokedPermission(perms[p]))
            /\ Served("revoke_user_machine_access", <<u, m>>, "ok", p)
    /\ UNCHANGED <<userRows, machineNames, keyValues, users, machines, machineActive, keys, now, permFiles, permIndex,
                   keyFiles, keyIndex, pc, req>>

\* DELETE /permissions/{permission_id}
DeletePermission(p) ==
    LET found == p \in DOMAIN perms
        mir   == DeletePermissionFromCloud(permFiles, permIndex, p)
    IN  /\ perms' = IF found THEN Remove(perms, p) ELSE perms
        /\ permFiles' = IF found THEN mir[1] ELSE permFiles
        /\ permIndex' = IF found THEN mir[2] ELSE permIndex
        /\ Served("delete_permission", <<>>, IF found THEN "ok" ELSE "NotFound", p)
        /\ UNCHANGED <<userRows, machineNames, keyValues, users, machines, machineActive, keys, now, keyFiles, keyIndex, pc, req>>

\* ------------------------------------------------- one request at a time
OptLevels == Levels \cup {"None"}
OptFlags == {<<>>, <<TRUE>>, <<FALSE>>}

Next ==
    \/ CreateUser
    \/ \E u \in UserIds : DeleteUser(u)
    \/ CreateMachine
    \/ \E m \in MachineIds : DeleteMachine(m)
    \/ \E n \in KeyNames, m \in MachineIds : CreateDigitalKey(n, m)
    \/ \E k \in KeyIds, n \in KeyNames, m \in MachineIds : UpdateDigitalKey(k, n, m)
    \/ \E k \in KeyIds : DeleteDigitalKey(k)
    \/ \E u \in UserIds, m \in MachineIds, k \in KeyIds, l \in Levels : Grant(u, m, k, l)
    \/ \E p \in PermIds, l \in OptLevels, a \in OptFlags : UpdatePermission(p, l, a)
    \/ \E p \in PermIds : RevokePermission(p)
    \/ \E u \in UserIds, m \in MachineIds : RevokeUserMachineAccess(u, m)
    \/ \E p \in PermIds : DeletePermission(p)

Spec == Init /\ [][Next]_vars

\* ------------------------------------------------ Grant requests interleaved
\* Each worker serves one Grant at a time in three steps, each a single
\* database transaction or a single mirror call:
\*   idle    -> service : the endpoint's checks (user, machine, existing row)
\*   service -> mirror  : the service's key checks, INSERT and COMMIT
\*   mirror  -> idle    : upload_permission_to_cloud, then the response

\* A populated store: one user, every machine, key 1 bound to machine 1 and
\* mirrored (reached in Spec by CreateUser, CreateMachine, CreateDigitalKey).
InitConc ==
    /\ users = {1}
    /\ machines = MachineIds
    /\ machineActive = MachineIds
    /\ keys = Put(<<>>, 1, [key_name |-> "k2", machine_id |-> 1])
    /\ perms = <<>>
    /\ now = 1
    /\ permFiles = <<>>
    /\ permIndex = <<>>
    /\ keyFiles = Put(<<>>, KeyFileName(1, "k2"), [key_name |-> "k2", machine_id |-> 1])
    /\ keyIndex = <<[id |-> 1, key_name |-> "k2"]>>
    /\ last = Idle
    /\ pc = [w \in Workers |-> "idle"]
    /\ req = [w \in Workers |-> NoReq]
    /\ userRows = <<>>
    /\ machineNames = <<>>
    /\ keyValues = <<>>

\* grant_access up to the call of the service.
GrantBegin(w, u, m, k, l) ==
    LET out == GrantApiCheck(u, m)
    IN  /\ pc[w] = "idle"
        /\ IF out = "ok"
           THEN /\ pc' = [pc EXCEPT ![w] = "service"]
                /\ req' = [req EXCEPT ![w] =
                             [user_id |-> u, machine_id |-> m, digital_key_id |-> k,
                              permission_level |-> l, id |-> 0]]
                /\ last' = last
           ELSE /\ Served("grant", <<u, m, k>>, out, 0)
                /\ UNCHANGED <<userRows, machineNames, keyValues, pc, req>>
        /\ UNCHANGED <<userRows, machineNames, keyValues, users, machines, machineActive, keys, perms, now, permFiles, permIndex,
                       keyFiles, keyIndex>>

\* GrantCommit that looks for a row of the pair again inside the insert's
\* transaction and refuses the insert when it finds one.
GrantCommit_ChecksAgain(w) ==
    LET r   == req[w]
        out == IF GrantApiCheck(r.user_id, r.machine_id) # "ok"
               THEN GrantApiCheck(r.user_id, r.machine_id)
               ELSE GrantServiceCheck(r.machine_id, r.digital_key_id)
        id  == NextId(DOMAIN perms)
    IN  /\ pc[w] = "service"
        /\ out = "ok" => id \in PermIds
        /\ IF out = "ok"
           THEN /\ perms' = Put(perms, id, NewPermission(r.user_id, r.machine_id,
                                          r.digital_key_id, r.permission_level))
                /\ pc' = [pc EXCEPT ![w] = "mirror"]
                /\ req' = [req EXCEPT ![w].id = id]
                /\ last' = last
           ELSE /\ perms' = perms
                /\ pc' = [pc EXCEPT ![w] = "idle"]
                /\ req' = [req EXCEPT ![w] = NoReq]
                /\ Served("grant", <<r.user_id, r.machine_id, r.digital_key_id>>, out, 0)
        /\ UNCHANGED <<userRows, machineNames, keyValues, users, machines, machineActive, keys, now, permFiles, permIndex,
                       keyFiles, keyIndex>>

\* grant_user_machine_access up to db.refresh: the existing-row check of the
\* endpoint is not made again.
GrantCommit(w) ==
    LET r   == req[w]
        out == GrantServiceCheck(r.machine_id, r.digital_key_id)
        id  == NextId(DOMAIN perms)
    IN  /\ pc[w] = "service"
        /\ out = "ok" => id \in PermIds
        /\ IF out = "ok"
           THEN /\ perms' = Put(perms, id, NewPermission(r.user_id, r.machine_id,
                                          r.digital_key_id, r.permission_level))
                /\ pc' = [pc EXCEPT ![w] = "mirror"]
                /\ req' = [req EXCEPT ![w].id = id]
                /\ last' = last
           ELSE /\ perms' = perms
                /\ pc' = [pc EXCEPT ![w] = "idle"]
                /\ req' = [req EXCEPT ![w] = NoReq]
                /\ Served("grant", <<r.user_id, r.machine_id, r.digital_key_id>>, out, 0)
        /\ UNCHANGED <<userRows, machineNames, keyValues, users, machines, machineActive, keys, now, permFiles, permIndex,
                       keyFiles, keyIndex>>

\* upload_permission_to_cloud with the row as it was inserted, then the response.
GrantUpload(w) ==
    LET r   == req[w]
        row == NewPermission(r.user_id, r.machine_id, r.digital_key_id,
                             r.permission_level)
        mir == UploadPermissionToCloud(permFiles, permIndex, PermSnapshot(row), r.id)
    IN  /\ pc[w] = "mirror"
        /\ permFiles' = mir[1]
        /\ permIndex' = mir[2]
        /\ pc' = [pc EXCEPT ![w] = "idle"]
        /\ req' = [req EXCEPT ![w] = NoReq]
        /\ Served("grant", <<r.user_id, r.machine_id, r.digital_key_id>>, "ok", r.id)
        /\ UNCHANGED <<userRows, machineNames, keyValues, users, machines, machineActive, keys, perms, now, keyFiles, keyIndex>>

NextConc ==
    \/ \E w \in Workers, u \in UserIds, m \in MachineIds, k \in KeyIds, l \in Levels :
          GrantBegin(w, u, m, k, l)
    \/ \E w \in Workers : GrantCommit(w)
    \/ \E w \in Workers : GrantUpload(w)

SpecConc == InitConc /\ [][NextConc]_vars

\* ------------------------- Grant interleaved with the other permission requests
\* The Grant steps of SpecConc, with Update, Revoke and Delete requests of
\* other clients served between them.
NextRace ==
    \/ NextConc
    \/ \E p \in PermIds, l \in OptLevels, a \in OptFlags : UpdatePermission(p, l, a)
    \/ \E p \in PermIds : RevokePermission(p)
    \/ \E p \in PermIds : DeletePermission(p)

SpecRace == InitConc /\ [][NextRace]_vars

\* ------------------------------------------------ mirror calls that fail
\* Where an exception can strike inside a mirror call. Every mirror function
\* catches it and returns False (the index helpers catch their own):
\*   "none"  : no exception
\*   "file"  : before the snapshot file is written or removed
\*   "index" : inside the index helper, after the file was written or removed
MirrorFaults == {"none", "file", "index"}

\* upload_permission_to_cloud under a fault.
UploadPermissionToCloudFaulty(files, index, data, id, f) ==
    CASE f = "file" -> <<files, index>>
      [] f = "index" -> <<Put(files, id, data), index>>
      [] OTHER -> UploadPermissionToCloud(files, index, data, id)

\* update_permission_in_cloud under a fault (it has no index step).
UpdatePermissionInCloudFaulty(files, index, data, id, f) ==
    IF f = "file" THEN <<files, index>>
    ELSE UpdatePermissionInCloud(files, index, data, id)

\* delete_permission_from_cloud under a fault.
DeletePermissionFromCloudFaulty(files, index, id, f) ==
    CASE f = "file" -> <<files, index>>
      [] f = "index" -> IF id \in DOMAIN files THEN <<Remove(files, id), index>>
                        ELSE <<files, index>>
      [] OTHER -> DeletePermissionFromCloud(files, index, id)

\* GrantFaulty that answers a failed upload with an error and rolls the
\* insert back.
GrantFaulty_Propagates(u, m, k, l, f) ==
    LET chk == GrantOutcome(u, m, k)
        out == IF chk = "ok" /\ f # "none" THEN "StorageFailure" ELSE chk
        id  == NextId(DOMAIN perms)
        row == NewPermission(u, m, k, l)
        mir == UploadPermissionToCloudFaulty(permFiles, permIndex, PermSnapshot(row), id, f)
    IN  /\ chk = "ok" => id \in PermIds
        /\ perms' = IF out = "ok" THEN Put(perms, id, row) ELSE perms
        /\ permFiles' = IF chk = "ok" THEN mir[1] ELSE permFiles
        /\ permIndex' = IF chk = "ok" THEN mir[2] ELSE permIndex
        /\ Served("grant", <<u, m, k>>, out, IF out = "ok" THEN id ELSE 0)
        /\ UNCHANGED <<userRows, machineNames, keyValues, users, machines, machineActive, keys, now, keyFiles, keyIndex, pc, req>>

\* POST /permissions/grant when the upload may fail: the return value of
\* upload_permission_to_cloud is not looked at.
GrantFaulty(u, m, k, l, f) ==
    LET out == GrantOutcome(u, m, k)
        id  == NextId(DOMAIN perms)
        row == NewPermission(u, m, k, l)
        mir == UploadPermissionToCloudFaulty(permFiles, permIndex, PermSnapshot(row), id, f)
    IN  /\ out = "ok" => id \in PermIds
        /\ perms' = IF out = "ok" THEN Put(perms, id, row) ELSE perms
        /\ permFiles' = IF out = "ok" THEN mir[1] ELSE permFiles
        /\ permIndex' = IF out = "ok" THEN mir[2] ELSE permIndex
        /\ Served("grant", <<u, m, k>>, out, IF out = "ok" THEN id ELSE 0)
        /\ UNCHANGED <<userRows, machineNames, keyValues, users, machines, machineActive, keys, now, keyFiles, keyIndex, pc, req>>

\* PUT /permissions/{permission_id} when the mirror update may fail.
UpdatePermissionFaulty(p, lvl, act, f) ==
    LET found == p \in DOMAIN perms
        row   == UpdatedPermission(perms[p], lvl, act)
        mir   == UpdatePermissionInCloudFaulty(permFiles, permIndex, PermSnapshot(row), p, f)
    IN  /\ perms' = IF found THEN Put(perms, p, row) ELSE perms
        /\ permFiles' = IF found THEN mir[1] ELSE permFiles
        /\ permIndex' = IF found THEN mir[2] ELSE permIndex
        /\ Served("update_permission", <<>>, IF found THEN "ok" ELSE "NotFound", p)
        /\ UNCHANGED <<userRows, machineNames, keyValues, users, machines, machineActive, keys, now, keyFiles, keyIndex, pc, req>>

\* POST /permissions/{permission_id}/revoke when the mirror update may fail.
RevokePermissionFaulty(p, f) ==
    LET found == p \in DOMAIN perms
        row   == RevokedPermission(perms[p])
        mir   == UpdatePermissionInCloudFaulty(permFiles, permIndex, PermSnapshot(row), p, f)
    IN  /\ perms' = IF found THEN Put(perms, p, row) ELSE perms
        /\ permFiles' = IF found THEN mir[1] ELSE permFiles
        /\ permIndex' = IF found THEN mir[2] ELSE permIndex
        /\ Served("revoke_permission", <<>>, IF found THEN "ok" ELSE "NotFound", p)
        /\ UNCHANGED <<userRows, machineNames, keyValues, users, machines, machineActive, keys, now, keyFiles, keyIndex, pc, req>>

\* DeletePermissionFaulty that removes the snapshot of an id that has no row.
DeletePermissionFaulty_CleansStale(p, f) ==
    LET found == p \in DOMAIN perms
        mir   == DeletePermissionFromCloudFaulty(permFiles, permIndex, p, f)
    IN  /\ perms' = IF found THEN Remove(perms, p) ELSE perms
        /\ permFiles' = mir[1]
        /\ permIndex' = mir[2]
        /\ Served("delete_permission", <<>>, IF found THEN "ok" ELSE "NotFound", p)
        /\ UNCHANGED <<userRows, machineNames, keyValues, users, machines, machineActive, keys, now, keyFiles, keyIndex, pc, req>>

\* DELETE /permissions/{permission_id} when the mirror deletion may fail.
DeletePermissionFaulty(p, f) ==
    LET found == p \in DOMAIN perms
        mir   == DeletePermissionFromCloudFaulty(permFiles, permIndex, p, f)
    IN  /\ perms' = IF found THEN Remove(perms, p) ELSE perms
        /\ permFiles' = IF found THEN mir[1] ELSE permFiles
        /\ permIndex' = IF found THEN mir[2] ELSE permIndex
        /\ Served("delete_permission", <<>>, IF found THEN "ok" ELSE "NotFound", p)
        /\ UNCHANGED <<userRows, machineNames, keyValues, users, machines, machineActive, keys, now, keyFiles, keyIndex, pc, req>>

NextFaulty ==
    \/ \E u \in UserIds, m \in MachineIds, k \in KeyIds, l \in Levels, f \in MirrorFaults :
          GrantFaulty(u, m, k, l, f)
    \/ \E p \in PermIds, l \in OptLevels, a \in OptFlags, f \in MirrorFaults :
          UpdatePermissionFaulty(p, l, a, f)
    \/ \E p \in PermIds, f \in MirrorFaults : RevokePermissionFaulty(p, f)
    \/ \E p \in PermIds, f \in MirrorFaults : DeletePermissionFaulty(p, f)

SpecFaulty == InitConc /\ [][NextFaulty]_vars

\* ------------------------------- entity requests on a store with a permission
\* The store of InitConc after Grant(user 1, machine 1, key 1, read).
InitGranted ==
    /\ users = {1}
    /\ machines = MachineIds
    /\ machineActive = MachineIds
    /\ keys = Put(<<>>, 1, [key_name |-> "k2", machine_id |-> 1])
    /\ perms = Put(<<>>, 1, [user_id |-> 1, machine_id |-> 1, digital_key_id |-> 1,
                              permission_level |-> "read", is_active |-> TRUE,
                              created_at |-> 1, revoked_at |-> NULL])
    /\ now = 1
    /\ permFiles = Put(<<>>, 1, [user_id |-> 1, machine_id |-> 1, digital_key_id |-> 1,
                                  permission_level |-> "read", is_active |-> TRUE])
    /\ permIndex = <<[id |-> 1]>>
    /\ keyFiles = Put(<<>>, KeyFileName(1, "k2"), [key_name |-> "k2", machine_id |-> 1])
    /\ keyIndex = <<[id |-> 1, key_name |-> "k2"]>>
    /\ last = Idle
    /\ pc = [w \in Workers |-> "idle"]
    /\ req = [w \in Workers |-> NoReq]
    /\ userRows = <<>>
    /\ machineNames = <<>>
    /\ keyValues = <<>>

\* is_active values a machine update may carry.
OptMachineFlags == {<<>>, <<1>>, <<0>>}

\* Every user, machine and digital-key request, and the permission requests
\* that change a row in place.
NextEntities ==
    \/ CreateUser
    \/ \E u \in UserIds : UpdateUser(u)
    \/ \E u \in UserIds : DeleteUser(u)
    \/ CreateMachine
    \/ \E m \in MachineIds, a \in OptMachineFlags : UpdateMachine(m, a)
    \/ \E m \in MachineIds : DeleteMachine(m)
    \/ \E n \in KeyNames, m \in MachineIds : CreateDigitalKey(n, m)
    \/ \E k \in KeyIds, n \in KeyNames, m \in MachineIds : UpdateDigitalKey(k, n, m)
    \/ \E k \in KeyIds : DeleteDigitalKey(k)
    \/ \E p \in PermIds, l \in OptLevels, a \in OptFlags : UpdatePermission(p, l, a)
    \/ \E p \in PermIds : RevokePermission(p)

SpecEntities == InitGranted /\ [][NextEntities]_vars

\* ------------------------------------- key requests on a store with two keys
TwoKeyIds == {1, 2}

\* The empty store after two machines were created and two digital keys,
\* "k 1" and "k2", were created on machine 1.
InitTwoKeys ==
    /\ users = {}
    /\ machines = MachineIds
    /\ machineActive = MachineIds
    /\ keys = <<[key_name |-> "k 1", machine_id |-> 1],
                [key_name |-> "k2", machine_id |-> 1]>>
    /\ perms = <<>>
    /\ now = 1
    /\ permFiles = <<>>
    /\ permIndex = <<>>
    /\ keyFiles = Put(Put(<<>>, KeyFileName(1, "k 1"), [key_name |-> "k 1", machine_id |-> 1]),
                       KeyFileName(2, "k2"), [key_name |-> "k2", machine_id |-> 1])
    /\ keyIndex = <<[id |-> 1, key_name |-> "k 1"], [id |-> 2, key_name |-> "k2"]>>
    /\ last = Idle
    /\ pc = [w \in Workers |-> "idle"]
    /\ req = [w \in Workers |-> NoReq]
    /\ userRows = <<>>
    /\ machineNames = <<>>
    /\ keyValues = <<>>

NextKeys ==
    \/ \E n \in KeyNames, m \in MachineIds : CreateDigitalKey(n, m)
    \/ \E k \in TwoKeyIds, n \in KeyNames, m \in MachineIds : UpdateDigitalKey(k, n, m)
    \/ \E k \in TwoKeyIds : DeleteDigitalKey(k)
    \/ \E m \in MachineIds : DeleteMachine(m)

SpecKeys == InitTwoKeys /\ [][NextKeys]_vars

\* ------------------------------------------------- the mirror store alone
\* The mirror functions called directly, one call at a time, with any id,
\* name and payload. The two buckets are separate directories and no
\* function touches both, so the calls are explored with one bucket in use
\* at a time.
MirrorIds == {1, 2}

\* "k 1" and "k_1" differ and give the same file name; "k2" gives another.
MirrorNames == {"k 1", "k_1", "k2"}

\* permission_data of a caller.
PermPayloads ==
    {[user_id |-> 1, machine_id |-> 1, digital_key_id |-> 1,
      permission_level |-> l, is_active |-> a] : l \in Levels, a \in BOOLEAN}

KeyBucketEmpty == keyFiles = <<>> /\ keyIndex = <<>>

PermBucketEmpty == permFiles = <<>> /\ permIndex = <<>>

MirrorUploadData(id, name, m) ==
    LET mir == UploadDataToCloud(keyFiles, keyIndex,
                   KeySnapshot([key_name |-> name, machine_id |-> m]), id, name)
    IN  /\ PermBucketEmpty
        /\ keyFiles' = mir[1]
        /\ keyIndex' = mir[2]
        /\ Served("upload_data_to_cloud", <<id, name, m>>, "True", id)
        /\ UNCHANGED <<userRows, machineNames, keyValues, users, machines, machineActive, keys, perms, now,
                       permFiles, permIndex, pc, req>>

MirrorDeleteData(id, name) ==
    LET mir == DeleteDataFromCloud(keyFiles, keyIndex, id, name)
    IN  /\ PermBucketEmpty
        /\ keyFiles' = mir[1]
        /\ keyIndex' = mir[2]
        /\ Served("delete_data_from_cloud", <<id, name>>,
                  DeleteDataResult(keyFiles, keyIndex, id, name), id)
        /\ UNCHANGED <<userRows, machineNames, keyValues, users, machines, machineActive, keys, perms, now,
                       permFiles, permIndex, pc, req>>

MirrorUploadPermission(id, data) ==
    LET mir == UploadPermissionToCloud(permFiles, permIndex, data, id)
    IN  /\ KeyBucketEmpty
        /\ permFiles' = mir[1]
        /\ permIndex' = mir[2]
        /\ Served("upload_permission_to_cloud", <<data>>, "True", id)
        /\ UNCHANGED <<userRows, machineNames, keyValues, users, machines, machineActive, keys, perms, now,
                       keyFiles, keyIndex, pc, req>>

MirrorUpdatePermission(id, data) ==
    LET mir == UpdatePermissionInCloud(permFiles, permIndex, data, id)
    IN  /\ KeyBucketEmpty
        /\ permFiles' = mir[1]
        /\ permIndex' = mir[2]
        /\ Served("update_permission_in_cloud", <<data>>,
                  IF id \in DOMAIN permFiles THEN "True" ELSE "False", id)
        /\ UNCHANGED <<userRows, machineNames, keyValues, users, machines, machineActive, keys, perms, now,
                       keyFiles, keyIndex, pc, req>>

MirrorDeletePermission(id) ==
    LET mir == DeletePermissionFromCloud(permFiles, permIndex, id)
    IN  /\ KeyBucketEmpty
        /\ permFiles' = mir[1]
        /\ permIndex' = mir[2]
        /\ Served("delete_permission_from_cloud", <<>>,
                  DeletePermissionResult(permFiles, permIndex, id), id)
        /\ UNCHANGED <<userRows, machineNames, keyValues, users, machines, machineActive, keys, perms, now,
                       keyFiles, keyIndex, pc, req>>

NextMirror ==
    \/ \E i \in MirrorIds, n \in MirrorNames, m \in MachineIds : MirrorUploadData(i, n, m)
    \/ \E i \in MirrorIds, n \in MirrorNames : MirrorDeleteData(i, n)
    \/ \E i \in MirrorIds, d \in PermPayloads : MirrorUploadPermission(i, d)
    \/ \E i \in MirrorIds, d \in PermPayloads : MirrorUpdatePermission(i, d)
    \/ \E i \in MirrorIds : MirrorDeletePermission(i)

SpecMirror == Init /\ [][NextMirror]_vars

\* --------------------------------------- the mirror store alone, with faults
\* upload_data_to_cloud under a fault: a failed file write is caught and
\* answered False; a failed index write is caught inside the index helper.
UploadDataToCloudFaulty(files, index, data, id, name, f) ==
    CASE f = "file" -> <<files, index>>
      [] f = "index" -> <<Put(files, KeyFileName(id, name), data), index>>
      [] OTHER -> UploadDataToCloud(files, index, data, id, name)

\* delete_data_from_cloud under a fault.
DeleteDataFromCloudFaulty(files, index, id, name, f) ==
    CASE f = "file" -> <<files, index>>
      [] f = "index" -> IF KeyFileName(id, name) \in DOMAIN files
                        THEN <<Remove(files, KeyFileName(id, name)), index>>
                        ELSE <<files, index>>
      [] OTHER -> DeleteDataFromCloud(files, index, id, name)

\* The boolean a mirror write returns.
WriteResult(f) == IF f = "file" THEN "False" ELSE "True"

\* The boolean a mirror delete (or in-place update) returns.
PresentResult(present, f) == IF present /\ f # "file" THEN "True" ELSE "False"

MirrorUploadDataFaulty(id, name, m, f) ==
    LET mir == UploadDataToCloudFaulty(keyFiles, keyIndex,
                   KeySnapshot([key_name |-> name, machine_id |-> m]), id, name, f)
    IN  /\ PermBucketEmpty
        /\ keyFiles' = mir[1]
        /\ keyIndex' = mir[2]
        /\ Served("upload_data_to_cloud", <<id, name, m>>, WriteResult(f), id)
        /\ UNCHANGED <<userRows, machineNames, keyValues, users, machines, machineActive, keys, perms, now,
                       permFiles, permIndex, pc, req>>

MirrorDeleteDataFaulty(id, name, f) ==
    LET mir == DeleteDataFromCloudFaulty(keyFiles, keyIndex, id, name, f)
    IN  /\ PermBucketEmpty
        /\ keyFiles' = mir[1]
        /\ keyIndex' = mir[2]
        /\ Served("delete_data_from_cloud", <<id, name>>,
                  PresentResult(KeyFileName(id, name) \in DOMAIN keyFiles, f), id)
        /\ UNCHANGED <<userRows, machineNames, keyValues, users, machines, machineActive, keys, perms, now,
                       permFiles, permIndex, pc, req>>

MirrorUploadPermissionFaulty(id, data, f) ==
    LET mir == UploadPermissionToCloudFaulty(permFiles, permIndex, data, id, f)
    IN  /\ KeyBucketEmpty
        /\ permFiles' = mir[1]
        /\ permIndex' = mir[2]
        /\ Served("upload_permission_to_cloud", <<data>>, WriteResult(f), id)
        /\ UNCHANGED <<userRows, machineNames, keyValues, users, machines, machineActive, keys, perms, now,
                       keyFiles, keyIndex, pc, req>>

MirrorUpdatePermissionFaulty(id, data, f) ==
    LET mir == UpdatePermissionInCloudFaulty(permFiles, permIndex, data, id, f)
    IN  /\ KeyBucketEmpty
        /\ permFiles' = mir[1]
        /\ permIndex' = mir[2]
        /\ Served("update_permission_in_cloud", <<data>>,
                  PresentResult(id \in DOMAIN permFiles, f), id)
        /\ UNCHANGED <<userRows, machineNames, keyValues, users, machines, machineActive, keys, perms, now,
                       keyFiles, keyIndex, pc, req>>

MirrorDeletePermissionFaulty(id, f) ==
    LET mir == DeletePermissionFromCloudFaulty(permFiles, permIndex, id, f)
    IN  /\ KeyBucketEmpty
        /\ permFiles' = mir[1]
        /\ permIndex' = mir[2]
        /\ Served("delete_permission_from_cloud", <<>>,
                  PresentResult(id \in DOMAIN permFiles, f), id)
        /\ UNCHANGED <<userRows, machineNames, keyValues, users, machines, machineActive, keys, perms, now,
                       keyFiles, keyIndex, pc, req>>

NextMirrorFaulty ==
    \/ \E i \in MirrorIds, n \in MirrorNames, m \in MachineIds, f \in MirrorFaults :
          MirrorUploadDataFaulty(i, n, m, f)
    \/ \E i \in MirrorIds, n \in MirrorNames, f \in MirrorFaults :
          MirrorDeleteDataFaulty(i, n, f)
    \/ \E i \in MirrorIds, d \in PermPayloads, f \in MirrorFaults :
          MirrorUploadPermissionFaulty(i, d, f)
    \/ \E i \in MirrorIds, d \in PermPayloads, f \in MirrorFaults :
          MirrorUpdatePermissionFaulty(i, d, f)
    \/ \E i \in MirrorIds, f \in MirrorFaults : MirrorDeletePermissionFaulty(i, f)

SpecMirrorFaulty == Init /\ [][NextMirrorFaulty]_vars

\* ------------------------------------- concurrent writers of one bucket
\* Two workers each run one upload; a worker's steps are the file write, the
\* load of the index file and the write of the index file (each whole-file
\* read or write is one step). req[w] holds the call's locals.
Buckets == {"digital-keys", "permissions"}

\* upload_data_to_cloud / upload_permission_to_cloud up to the call of the
\* index helper: the snapshot file is written.
WriteFile(w, b, id, name, m, data) ==
    /\ pc[w] = "idle"
    /\ \A o \in Workers \ {w} :
          pc[o] # "idle" => (req[o].bucket = b /\ req[o].id # id)
    /\ IF b = "digital-keys"
       THEN /\ keyFiles' = Put(keyFiles, KeyFileName(id, name),
                               KeySnapshot([key_name |-> name, machine_id |-> m]))
            /\ UNCHANGED permFiles
       ELSE /\ permFiles' = Put(permFiles, id, data)
            /\ UNCHANGED keyFiles
    /\ pc' = [pc EXCEPT ![w] = "file_written"]
    /\ req' = [req EXCEPT ![w] = [bucket |-> b, id |-> id, key_name |-> name, index |-> <<>>]]
    /\ UNCHANGED <<userRows, machineNames, keyValues, users, machines, machineActive, keys, perms, now,
                   permIndex, keyIndex, last>>

\* The index helper loads the index file.
LoadIndex(w) ==
    /\ pc[w] = "file_written"
    /\ req' = [req EXCEPT ![w].index =
                  IF req[w].bucket = "digital-keys" THEN keyIndex ELSE permIndex]
    /\ pc' = [pc EXCEPT ![w] = "index_loaded"]
    /\ UNCHANGED <<userRows, machineNames, keyValues, users, machines, machineActive, keys, perms, now,
                   permFiles, permIndex, keyFiles, keyIndex, last>>

\* StoreIndex that updates the index file in place, in one step.
StoreIndex_Atomic(w) ==
    /\ pc[w] = "index_loaded"
    /\ IF req[w].bucket = "digital-keys"
       THEN /\ keyIndex' = UpdateMetadataIndex(keyIndex, req[w].id, req[w].key_name)
            /\ UNCHANGED permIndex
       ELSE /\ permIndex' = UpdatePermissionMetadataIndex(permIndex, req[w].id)
            /\ UNCHANGED keyIndex
    /\ pc' = [pc EXCEPT ![w] = "done"]
    /\ UNCHANGED <<userRows, machineNames, keyValues, users, machines, machineActive, keys, perms, now,
                   permFiles, keyFiles, last, req>>

\* The index helper writes back the index it loaded, with its own entry.
StoreIndex(w) ==
    /\ pc[w] = "index_loaded"
    /\ IF req[w].bucket = "digital-keys"
       THEN /\ keyIndex' = UpdateMetadataIndex(req[w].index, req[w].id, req[w].key_name)
            /\ UNCHANGED permIndex
       ELSE /\ permIndex' = UpdatePermissionMetadataIndex(req[w].index, req[w].id)
            /\ UNCHANGED keyIndex
    /\ pc' = [pc EXCEPT ![w] = "done"]
    /\ UNCHANGED <<userRows, machineNames, keyValues, users, machines, machineActive, keys, perms, now,
                   permFiles, keyFiles, last, req>>

NextWriters ==
    \/ \E w \in Workers, b \in Buckets, i \in MirrorIds, n \in MirrorNames,
           m \in MachineIds, d \in PermPayloads : WriteFile(w, b, i, n, m, d)
    \/ \E w \in Workers : LoadIndex(w)
    \/ \E w \in Workers : StoreIndex(w)

SpecWriters == Init /\ [][NextWriters]_vars

\* ------------------------------------------------------- access summaries
MinOf(S) == CHOOSE x \in S : \A y \in S : x <= y

\* The loop of get_user_access_summary over the rows the query returned (ids),
\* in row order: an entry for each row whose machine is found.
RECURSIVE UserAccessList(_, _, _)
UserAccessList(ps, ms, ids) ==
    IF ids = {} THEN <<>>
    ELSE LET p == MinOf(ids)
         IN  (IF ps[p].machine_id \in ms
              THEN <<[user_id |-> ps[p].user_id, machine_id |-> ps[p].machine_id,
                      permission_level |-> ps[p].permission_level,
                      is_active |-> ps[p].is_active, created_at |-> ps[p].created_at]>>
              ELSE <<>>) \o UserAccessList(ps, ms, ids \ {p})

\* GetUserAccessSummaryResponse that answers for a user that does not exist.
GetUserAccessSummaryResponse_NoUserCheck(us, ms, ps, u) ==
    [status |-> 200,
     body |-> UserAccessList(ps, ms,
                  {p \in DOMAIN ps : ps[p].user_id = u /\ ps[p].is_active})]

\* get_user_access_summary: 404 for a missing user, else the entries of the
\* user's active permissions.
GetUserAccessSummaryResponse(us, ms, ps, u) ==
    IF u \notin us THEN [status |-> 404, body |-> <<>>]
    ELSE [status |-> 200,
          body |-> UserAccessList(ps, ms,
                       {p \in DOMAIN ps : ps[p].user_id = u /\ ps[p].is_active})]

\* The loop of get_machine_access_summary: an entry for each row whose user
\* is found.
RECURSIVE MachineAccessList(_, _, _)
MachineAccessList(ps, us, ids) ==
    IF ids = {} THEN <<>>
    ELSE LET p == MinOf(ids)
         IN  (IF ps[p].user_id \in us
              THEN <<[user_id |-> ps[p].user_id,
                      permission_level |-> ps[p].permission_level,
                      is_active |-> ps[p].is_active, created_at |-> ps[p].created_at]>>
              ELSE <<>>) \o MachineAccessList(ps, us, ids \ {p})

\* get_machine_access_summary
GetMachineAccessSummaryResponse(us, ms, ps, m) ==
    IF m \notin ms THEN [status |-> 404, body |-> <<>>]
    ELSE [status |-> 200,
          body |-> MachineAccessList(ps, us,
                       {p \in DOMAIN ps : ps[p].machine_id = m /\ ps[p].is_active})]

\* GET /access/user/{user_id}: only queries.
GetUserAccessSummary(u) ==
    /\ Served("get_user_access_summary", <<u>>,
              IF GetUserAccessSummaryResponse(users, machines, perms, u).status = 200
              THEN "ok" ELSE "User not found",
              Len(GetUserAccessSummaryResponse(users, machines, perms, u).body))
    /\ UNCHANGED <<userRows, machineNames, keyValues, users, machines, machineActive, keys, perms, now,
                   permFiles, permIndex, keyFiles, keyIndex, pc, req>>

\* GET /access/machine/{machine_id}: only queries.
GetMachineAccessSummary(m) ==
    /\ Served("get_machine_access_summary", <<m>>,
              IF GetMachineAccessSummaryResponse(users, machines, perms, m).status = 200
              THEN "ok" ELSE "Machine not found",
              Len(GetMachineAccessSummaryResponse(users, machines, perms, m).body))
    /\ UNCHANGED <<userRows, machineNames, keyValues, users, machines, machineActive, keys, perms, now,
                   permFiles, permIndex, keyFiles, keyIndex, pc, req>>

\* The requests that decide a summary, from the store of InitGranted.
NextSummary ==
    \/ CreateUser
    \/ \E u \in UserIds : DeleteUser(u)
    \/ CreateMachine
    \/ \E m \in MachineIds : DeleteMachine(m)
    \/ \E k \in KeyIds, n \in KeyNames, m \in MachineIds : UpdateDigitalKey(k, n, m)
    \/ \E u \in UserIds, m \in MachineIds, k \in KeyIds, l \in Levels : Grant(u, m, k, l)
    \/ \E p \in PermIds, l \in OptLevels, a \in OptFlags : UpdatePermission(p, l, a)
    \/ \E p \in PermIds : RevokePermission(p)
    \/ \E u \in UserIds : GetUserAccessSummary(u)
    \/ \E m \in MachineIds : GetMachineAccessSummary(m)

SpecSummary == InitGranted /\ [][NextSummary]_vars

\* ------------------------------------------------ requests with natural keys
\* The user, machine and digital-key requests with the unique columns of the
\* three tables tracked: username, email, machine_name, key_name, key_value.
RowIds == {1, 2}

Usernames == {"alice", "bob"}

Emails == {"a@x", "b@x"}

MachineNameSet == {"db-01", "db-02"}

KeyValueSet == {"v1", "v2"}

\* A field of an update body: <<>> for None, else <<value>>.
Opt(S) == {<<>>} \cup {<<x>> : x \in S}

\* POST /users: the endpoint looks for the username, then for the email.
PostUserOutcome(username, email) ==
    IF \E u \in DOMAIN userRows : userRows[u].username = username
    THEN "Username already exists"
    ELSE IF \E u \in DOMAIN userRows : userRows[u].email = email
         THEN "Email already exists"
    ELSE "ok"

PostUser(username, email) ==
    LET out == PostUserOutcome(username, email)
        id  == NextId(users)
    IN  /\ out = "ok" => id \in RowIds
        /\ users' = IF out = "ok" THEN users \cup {id} ELSE users
        /\ userRows' = IF out = "ok"
                        THEN Put(userRows, id, [username |-> username, email |-> email])
                        ELSE userRows
        /\ Served("create_user", <<>>, out, 0)
        /\ UNCHANGED <<machineNames, keyValues, machines, machineActive, keys, perms,
                       now, permFiles, permIndex, keyFiles, keyIndex, pc, req>>

\* The row update_user is about to commit.
UpdatedUserRow(row, username, email) ==
    [username |-> IF username = <<>> THEN row.username ELSE username[1],
     email    |-> IF email = <<>> THEN row.email ELSE email[1]]

\* PUT /users/{user_id}: no lookup of its own; the unique indexes of the
\* table decide at commit.
PutUserOutcome(u, username, email) ==
    IF u \notin users THEN "NotFound"
    ELSE LET row == UpdatedUserRow(userRows[u], username, email)
         IN  IF \E o \in (DOMAIN userRows) \ {u} :
                    userRows[o].username = row.username \/ userRows[o].email = row.email
             THEN "IntegrityError"
             ELSE "ok"

PutUser(u, username, email) ==
    LET out == PutUserOutcome(u, username, email)
    IN  /\ userRows' = IF out = "ok"
                        THEN Put(userRows, u, UpdatedUserRow(userRows[u], username, email))
                        ELSE userRows
        /\ Served("update_user", <<>>, out, 0)
        /\ UNCHANGED <<machineNames, keyValues, users, machines, machineActive, keys,
                       perms, now, permFiles, permIndex, keyFiles, keyIndex, pc, req>>

\* POST /machines: the endpoint looks for the machine name.
PostMachineOutcome(name) ==
    IF \E m \in DOMAIN machineNames : machineNames[m] = name
    THEN "Machine name already exists"
    ELSE "ok"

PostMachine(name) ==
    LET out == PostMachineOutcome(name)
        id  == NextId(machines)
    IN  /\ out = "ok" => id \in RowIds
        /\ machines' = IF out = "ok" THEN machines \cup {id} ELSE machines
        /\ machineActive' = IF out = "ok" THEN machineActive \cup {id} ELSE machineActive
        /\ machineNames' = IF out = "ok" THEN Put(machineNames, id, name) ELSE machineNames
        /\ Served("create_machine", <<>>, out, 0)
        /\ UNCHANGED <<userRows, keyValues, users, keys, perms, now, permFiles,
                       permIndex, keyFiles, keyIndex, pc, req>>

\* PUT /machines/{machine_id} with a machine_name: the unique index decides
\* at commit.
PutMachineOutcome(m, name) ==
    IF m \notin machines THEN "NotFound"
    ELSE IF name # <<>> /\ \E o \in (DOMAIN machineNames) \ {m} : machineNames[o] = name[1]
         THEN "IntegrityError"
    ELSE "ok"

PutMachine(m, name) ==
    LET out == PutMachineOutcome(m, name)
    IN  /\ machineNames' = IF out = "ok" /\ name # <<>>
                            THEN Put(machineNames, m, name[1]) ELSE machineNames
        /\ Served("update_machine", <<>>, out, 0)
        /\ UNCHANGED <<userRows, keyValues, users, machines, machineActive, keys,
                       perms, now, permFiles, permIndex, keyFiles, keyIndex, pc, req>>

\* PostDigitalKeyOutcome without the unique index on key_value.
PostDigitalKeyOutcome_ValueNotUnique(name, value, m) ==
    IF m \notin machines THEN "MachineNotFound"
    ELSE IF \E k \in DOMAIN keys : keys[k].key_name = name THEN "IntegrityError"
    ELSE "ok"

\* create_digital_key: the machine check, then the unique indexes on
\* key_name and key_value at commit.
PostDigitalKeyOutcome(name, value, m) ==
    IF m \notin machines THEN "MachineNotFound"
    ELSE IF \/ \E k \in DOMAIN keys : keys[k].key_name = name
            \/ \E k \in DOMAIN keyValues : keyValues[k] = value
         THEN "IntegrityError"
    ELSE "ok"

\* POST /digital-keys
PostDigitalKey(name, value, m) ==
    LET out == PostDigitalKeyOutcome(name, value, m)
        id  == NextId(DOMAIN keys)
        row == [key_name |-> name, machine_id |-> m]
        mir == UploadDataToCloud(keyFiles, keyIndex, KeySnapshot(row), id, name)
    IN  /\ out = "ok" => id \in RowIds
        /\ keys' = IF out = "ok" THEN Put(keys, id, row) ELSE keys
        /\ keyValues' = IF out = "ok" THEN Put(keyValues, id, value) ELSE keyValues
        /\ keyFiles' = IF out = "ok" THEN mir[1] ELSE keyFiles
        /\ keyIndex' = IF out = "ok" THEN mir[2] ELSE keyIndex
        /\ Served("create_digital_key", <<>>, out, 0)
        /\ UNCHANGED <<userRows, machineNames, users, machines, machineActive, perms,
                       now, permFiles, permIndex, pc, req>>

\* update_digital_key: key lookup, machine check, then the unique indexes at
\* commit.
PutDigitalKeyOutcome(k, name, value, m) ==
    IF k \notin DOMAIN keys THEN "NotFound"
    ELSE IF m \notin machines THEN "MachineNotFound"
    ELSE IF \/ \E j \in (DOMAIN keys) \ {k} : keys[j].key_name = name
            \/ \E j \in (DOMAIN keyValues) \ {k} : keyValues[j] = value
         THEN "IntegrityError"
    ELSE "ok"

\* PUT /digital-keys/{key_id}
PutDigitalKey(k, name, value, m) ==
    LET out == PutDigitalKeyOutcome(k, name, value, m)
        row == [key_name |-> name, machine_id |-> m]
        del == DeleteDataFromCloud(keyFiles, keyIndex, k, keys[k].key_name)
        mir == UploadDataToCloud(del[1], del[2], KeySnapshot(row), k, name)
    IN  /\ keys' = IF out = "ok" THEN Put(keys, k, row) ELSE keys
        /\ keyValues' = IF out = "ok" THEN Put(keyValues, k, value) ELSE keyValues
        /\ keyFiles' = CASE out = "ok" -> mir[1]
                         [] out = "IntegrityError" -> del[1]
                         [] OTHER -> keyFiles
        /\ keyIndex' = CASE out = "ok" -> mir[2]
                         [] out = "IntegrityError" -> del[2]
                         [] OTHER -> keyIndex
        /\ Served("update_digital_key", <<>>, out, 0)
        /\ UNCHANGED <<userRows, machineNames, users, machines, machineActive, perms,
                       now, permFiles, permIndex, pc, req>>

NextUnique ==
    \/ \E n \in Usernames, e \in Emails : PostUser(n, e)
    \/ \E u \in RowIds, n \in Opt(Usernames), e \in Opt(Emails) : PutUser(u, n, e)
    \/ \E u \in RowIds : DeleteUser(u)
    \/ \E n \in MachineNameSet : PostMachine(n)
    \/ \E m \in RowIds, n \in Opt(MachineNameSet) : PutMachine(m, n)
    \/ \E m \in RowIds : DeleteMachine(m)
    \/ \E n \in KeyNames, v \in KeyValueSet, m \in RowIds : PostDigitalKey(n, v, m)
    \/ \E k \in RowIds, n \in KeyNames, v \in KeyValueSet, m \in RowIds :
          PutDigitalKey(k, n, v, m)
    \/ \E k \in RowIds : DeleteDigitalKey(k)

SpecUnique == Init /\ [][NextUnique]_vars

\* ------------------------------- Grant interleaved with revocation by pair
\* The Grant steps of SpecConc, with revoke_user_machine_access requests of
\* other clients served between them (the request is one transaction and has
\* no mirror call, so it is one step).
NextRevokeRace ==
    \/ NextConc
    \/ \E u \in UserIds, m \in MachineIds : RevokeUserMachineAccess(u, m)

SpecRevokeRace == InitConc /\ [][NextRevokeRace]_vars

\* ------------------- Update, Revoke and Delete of a permission interleaved
\* Each worker serves one request on a permission; a request's steps are the
\* service's database transaction and then each file-system call of its
\* mirror function. req[w] holds the request's locals: the operation, the
\* permission id and the permission_data built from the committed row.
\*   idle   -> mirror : query, change or delete of the row, COMMIT
\*   mirror -> exists : file_path.exists() answered True
\*   exists -> done   : open(file_path, 'w') and dump (update, revoke)
\*   exists -> unlinked -> done : os.remove, then the index helper (delete)
PermRequest(op, p, data) == [op |-> op, id |-> p, data |-> data]

\* update_permission up to db.refresh
UpdatePermissionCommit(w, p, lvl, act) ==
    LET found == p \in DOMAIN perms
        row   == UpdatedPermission(perms[p], lvl, act)
    IN  /\ pc[w] = "idle"
        /\ perms' = IF found THEN Put(perms, p, row) ELSE perms
        /\ pc' = [pc EXCEPT ![w] = IF found THEN "mirror" ELSE "done"]
        /\ req' = [req EXCEPT ![w] =
                     PermRequest("update_permission", p,
                                 IF found THEN PermSnapshot(row) ELSE <<>>)]
        /\ IF found THEN last' = last
           ELSE Served("update_permission", <<>>, "NotFound", p)
        /\ UNCHANGED <<userRows, machineNames, keyValues, users, machines, machineActive, keys, now,
                       permFiles, permIndex, keyFiles, keyIndex>>

\* revoke_permission up to the commit and the reload of the row
RevokePermissionCommit(w, p) ==
    LET found == p \in DOMAIN perms
        row   == RevokedPermission(perms[p])
    IN  /\ pc[w] = "idle"
        /\ perms' = IF found THEN Put(perms, p, row) ELSE perms
        /\ pc' = [pc EXCEPT ![w] = IF found THEN "mirror" ELSE "done"]
        /\ req' = [req EXCEPT ![w] =
                     PermRequest("revoke_permission", p,
                                 IF found THEN PermSnapshot(row) ELSE <<>>)]
        /\ IF found THEN last' = last
           ELSE Served("revoke_permission", <<>>, "NotFound", p)
        /\ UNCHANGED <<userRows, machineNames, keyValues, users, machines, machineActive, keys, now,
                       permFiles, permIndex, keyFiles, keyIndex>>

\* delete_permission up to the commit
DeletePermissionCommit(w, p) ==
    LET found == p \in DOMAIN perms
    IN  /\ pc[w] = "idle"
        /\ perms' = IF found THEN Remove(perms, p) ELSE perms
        /\ pc' = [pc EXCEPT ![w] = IF found THEN "mirror" ELSE "done"]
        /\ req' = [req EXCEPT ![w] = PermRequest("delete_permission", p, <<>>)]
        /\ IF found THEN last' = last
           ELSE Served("delete_permission", <<>>, "NotFound", p)
        /\ UNCHANGED <<userRows, machineNames, keyValues, users, machines, machineActive, keys, now,
                       permFiles, permIndex, keyFiles, keyIndex>>

\* The file_path.exists() test of update_permission_in_cloud and of
\* delete_permission_from_cloud: a missing file returns False, which the
\* service does not look at.
MirrorExists(w) ==
    /\ pc[w] = "mirror"
    /\ pc' = [pc EXCEPT ![w] =
                 IF req[w].id \in DOMAIN permFiles THEN "exists" ELSE "done"]
    /\ IF req[w].id \in DOMAIN permFiles THEN last' = last
       ELSE Served(req[w].op, <<>>, "ok", req[w].id)
    /\ UNCHANGED <<userRows, machineNames, keyValues, users, machines, machineActive, keys, perms, now,
                   permFiles, permIndex, keyFiles, keyIndex, req>>

\* update_permission_in_cloud after the test: open(file_path, 'w') creates
\* the file when it is gone and truncates it when it is there.
MirrorWrite(w) ==
    /\ pc[w] = "exists"
    /\ req[w].op \in {"update_permission", "revoke_permission"}
    /\ permFiles' = Put(permFiles, req[w].id, req[w].data)
    /\ pc' = [pc EXCEPT ![w] = "done"]
    /\ Served(req[w].op, <<>>, "ok", req[w].id)
    /\ UNCHANGED <<userRows, machineNames, keyValues, users, machines, machineActive, keys, perms, now,
                   permIndex, keyFiles, keyIndex, req>>

\* delete_permission_from_cloud after the test: os.remove; when the file is
\* gone it raises, the function returns False and the index is left alone.
MirrorUnlink(w) ==
    /\ pc[w] = "exists"
    /\ req[w].op = "delete_permission"
    /\ permFiles' = IF req[w].id \in DOMAIN permFiles
                     THEN Remove(permFiles, req[w].id) ELSE permFiles
    /\ pc' = [pc EXCEPT ![w] =
                 IF req[w].id \in DOMAIN permFiles THEN "unlinked" ELSE "done"]
    /\ IF req[w].id \in DOMAIN permFiles THEN last' = last
       ELSE Served(req[w].op, <<>>, "ok", req[w].id)
    /\ UNCHANGED <<userRows, machineNames, keyValues, users, machines, machineActive, keys, perms, now,
                   permIndex, keyFiles, keyIndex, req>>

\* _remove_permission_from_metadata_index, then the response
MirrorIndexRemove(w) ==
    /\ pc[w] = "unlinked"
    /\ permIndex' = RemovePermissionFromMetadataIndex(permIndex, req[w].id)
    /\ pc' = [pc EXCEPT ![w] = "done"]
    /\ Served(req[w].op, <<>>, "ok", req[w].id)
    /\ UNCHANGED <<userRows, machineNames, keyValues, users, machines, machineActive, keys, perms, now,
                   permFiles, keyFiles, keyIndex, req>>

NextPermRace ==
    \/ \E w \in Workers, p \in PermIds, l \in OptLevels, a \in OptFlags :
          UpdatePermissionCommit(w, p, l, a)
    \/ \E w \in Workers, p \in PermIds : RevokePermissionCommit(w, p)
    \/ \E w \in Workers, p \in PermIds : DeletePermissionCommit(w, p)
    \/ \E w \in Workers : MirrorExists(w)
    \/ \E w \in Workers : MirrorWrite(w)
    \/ \E w \in Workers : MirrorUnlink(w)
    \/ \E w \in Workers : MirrorIndexRemove(w)

SpecPermRace == InitGranted /\ [][NextPermRace]_vars

\* ------------------------- Grant interleaved with the entity requests
\* The Grant steps of SpecConc, with the deletions of users, machines and
\* digital keys and the updates of digital keys of other clients served
\* between them (each of those requests is one step).
NextGrantRace ==
    \/ NextConc
    \/ \E u \in UserIds : DeleteUser(u)
    \/ \E m \in MachineIds : DeleteMachine(m)
    \/ \E k \in KeyIds, n \in KeyNames, m \in MachineIds : UpdateDigitalKey(k, n, m)
    \/ \E k \in KeyIds : DeleteDigitalKey(k)

SpecGrantRace == InitConc /\ [][NextGrantRace]_vars

\* ------------------------------------ updates of one digital key interleaved
\* Each worker serves one PUT /digital-keys/{key_id}; a request's steps are
\* its database reads, the mirror deletion, the commit and the mirror upload.
\* req[w] holds the request's locals: the key id, the row as it was loaded,
\* the body, and the row as refreshed after the commit.
\*   idle    -> loaded   : key lookup and machine check
\*   loaded  -> deleted  : delete_data_from_cloud(id, loaded key_name)
\*   deleted -> commited : UPDATE, COMMIT, db.refresh
\*   commited -> done    : upload_data_to_cloud(refreshed row)
KeyUpdateLoad(w, k, name, m) ==
    LET out == IF k \notin DOMAIN keys THEN "NotFound"
               ELSE IF m \notin machines THEN "MachineNotFound" ELSE "ok"
    IN  /\ pc[w] = "idle"
        /\ req' = [req EXCEPT ![w] =
                     [id |-> k, key_name |-> name, machine_id |-> m,
                      loaded |-> IF out = "ok" THEN keys[k] ELSE <<>>,
                      row |-> <<>>]]
        /\ pc' = [pc EXCEPT ![w] = IF out = "ok" THEN "loaded" ELSE "done"]
        /\ IF out = "ok" THEN last' = last
           ELSE Served("update_digital_key", <<>>, out, 0)
        /\ UNCHANGED <<userRows, machineNames, keyValues, users, machines, machineActive, keys, perms, now,
                       permFiles, permIndex, keyFiles, keyIndex>>

KeyUpdateDelete(w) ==
    LET del == DeleteDataFromCloud(keyFiles, keyIndex, req[w].id, req[w].loaded.key_name)
    IN  /\ pc[w] = "loaded"
        /\ keyFiles' = del[1]
        /\ keyIndex' = del[2]
        /\ pc' = [pc EXCEPT ![w] = "deleted"]
        /\ UNCHANGED <<userRows, machineNames, keyValues, users, machines, machineActive, keys, perms, now,
                       permFiles, permIndex, last, req>>

\* The row the flush leaves in the table: the UPDATE sets the columns whose
\* assigned value differs from the value the session loaded, the others keep
\* what the table holds.
FlushedKeyRow(cur, loaded, name, m) ==
    [key_name   |-> IF name # loaded.key_name THEN name ELSE cur.key_name,
     machine_id |-> IF m # loaded.machine_id THEN m ELSE cur.machine_id]

\* db.commit() and db.refresh(db_digital_key); the unique index on key_name
\* rejects a name another key holds.
KeyUpdateCommit(w) ==
    LET k   == req[w].id
        row == FlushedKeyRow(keys[k], req[w].loaded, req[w].key_name, req[w].machine_id)
        out == IF \E j \in (DOMAIN keys) \ {k} : keys[j].key_name = row.key_name
               THEN "IntegrityError" ELSE "ok"
    IN  /\ pc[w] = "deleted"
        /\ keys' = IF out = "ok" THEN Put(keys, k, row) ELSE keys
        /\ req' = [req EXCEPT ![w].row = IF out = "ok" THEN row ELSE <<>>]
        /\ pc' = [pc EXCEPT ![w] = IF out = "ok" THEN "commited" ELSE "done"]
        /\ IF out = "ok" THEN last' = last
           ELSE Served("update_digital_key", <<>>, out, 0)
        /\ UNCHANGED <<userRows, machineNames, keyValues, users, machines, machineActive, perms, now,
                       permFiles, permIndex, keyFiles, keyIndex>>

\* upload_data_to_cloud with the columns read by db.refresh, then the response.
KeyUpdateUpload(w) ==
    LET mir == UploadDataToCloud(keyFiles, keyIndex, KeySnapshot(req[w].row),
                                 req[w].id, req[w].row.key_name)
    IN  /\ pc[w] = "commited"
        /\ keyFiles' = mir[1]
        /\ keyIndex' = mir[2]
        /\ pc' = [pc EXCEPT ![w] = "done"]
        /\ Served("update_digital_key", <<>>, "ok", 0)
        /\ UNCHANGED <<userRows, machineNames, keyValues, users, machines, machineActive, keys, perms, now,
                       permFiles, permIndex, req>>

NextKeyRace ==
    \/ \E w \in Workers, k \in KeyIds, n \in MirrorNames, m \in MachineIds :
          KeyUpdateLoad(w, k, n, m)
    \/ \E w \in Workers : KeyUpdateDelete(w)
    \/ \E w \in Workers : KeyUpdateCommit(w)
    \/ \E w \in Workers : KeyUpdateUpload(w)

SpecKeyRace == InitConc /\ [][NextKeyRace]_vars

\* ------------------------- permission requests on a mirror that has drifted
\* The requests of SpecFaulty (a failed mirror deletion leaves the snapshot
\* of a deleted permission behind) together with the revocation by pair.
NextStale ==
    \/ NextFaulty
    \/ \E u \in UserIds, m \in MachineIds : RevokeUserMachineAccess(u, m)

SpecStale == InitConc /\ [][NextStale]_vars

\* ----------------------------------------------- renaming digital keys
\* Updates and deletions of the two keys of InitTwoKeys, one request at a
\* time, with every key_name of MirrorNames: "k 1" and "k_1" are different
\* names with the same file name.
NextRename ==
    \/ \E k \in TwoKeyIds, n \in MirrorNames, m \in MachineIds : UpdateDigitalKey(k, n, m)
    \/ \E k \in TwoKeyIds : DeleteDigitalKey(k)

SpecRename == InitTwoKeys /\ [][NextRename]_vars

\* ------------------------------------------- permission requests over time
\* The permission requests of Spec, one at a time, on the populated store of
\* InitConc, with the clock advancing between requests.
NextTimed ==
    \/ Tick
    \/ \E u \in UserIds, m \in MachineIds, k \in KeyIds, l \in Levels : Grant(u, m, k, l)
    \/ \E p \in PermIds, l \in OptLevels, a \in OptFlags : UpdatePermission(p, l, a)
    \/ \E p \in PermIds : RevokePermission(p)
    \/ \E u \in UserIds, m \in MachineIds : RevokeUserMachineAccess(u, m)
    \/ \E p \in PermIds : DeletePermission(p)

SpecTimed == InitConc /\ [][NextTimed]_vars

\* ================================================================== claims
\* Rows of a pair, and whether one of them is active.
PairRows(u, m) ==
    {p \in DOMAIN perms : perms[p].user_id = u /\ perms[p].machine_id = m}

HasActive(u, m) == \E p \in PairRows(u, m) : perms[p].is_active

\* Permissions whose key exists and is bound to another machine.
Unbound ==
    {p \in DOMAIN perms :
        /\ perms[p].digital_key_id \in DOMAIN keys
        /\ perms[p].machine_id # keys[perms[p].digital_key_id].machine_id}

AtMostOneActivePerPair ==
    \A p, q \in DOMAIN perms :
        (/\ perms[p].is_active /\ perms[q].is_active
         /\ perms[p].user_id = perms[q].user_id
         /\ perms[p].machine_id = perms[q].machine_id) => p = q

\* ---- C1
\* C1 as stated: in every reachable state every Permission whose DigitalKey
\* exists names the machine that key is bound to.
C1_BindingInvariant == Unbound = {}

\* C1 amended: a step that leaves the digital_keys table unchanged (Grant,
\* Update, Revoke, RevokeByUserMachine, Delete of a permission, user and
\* machine requests) never adds a Permission bound to another machine than
\* its key; in particular the Permission a Grant creates names its key's
\* machine. Only a change of the key table (rebinding update, delete and
\* re-create under the same id) can leave a Permission unbound.
C1_BindingKeptWhileKeysUntouched ==
    [][keys' = keys => Unbound' \subseteq Unbound]_vars

\* A Grant has just created a Permission through a key bound to its machine.
C1_Witness ==
    /\ last.op = "grant" /\ last.outcome = "ok"
    /\ last.id \in DOMAIN perms
    /\ perms[last.id].digital_key_id \in DOMAIN keys
    /\ keys[perms[last.id].digital_key_id].machine_id = perms[last.id].machine_id

\* ---- C2
\* C2 as stated: with one request at a time there is at most one active
\* Permission per (user, machine), and every Grant for a pair that has an
\* active Permission is answered DuplicateActiveGrant.
C2_Original ==
    /\ AtMostOneActivePerPair
    /\ \A u \in UserIds, m \in MachineIds, k \in KeyIds :
          HasActive(u, m) => GrantOutcome(u, m, k) = "DuplicateActiveGrant"

\* C2 amended: with one request at a time there is at most one active
\* Permission per (user, machine), and every Grant for a pair that has an
\* active Permission fails: with DuplicateActiveGrant when the user and the
\* machine still exist, with UserNotFound or MachineNotFound when one of
\* them has been deleted since.
C2_OneActivePerPairSequential ==
    /\ AtMostOneActivePerPair
    /\ \A u \in UserIds, m \in MachineIds, k \in KeyIds :
          HasActive(u, m) =>
             /\ GrantOutcome(u, m, k) \in
                   {"UserNotFound", "MachineNotFound", "DuplicateActiveGrant"}
             /\ (u \in users /\ m \in machines) =>
                   GrantOutcome(u, m, k) = "DuplicateActiveGrant"

\* A Grant for a pair with an active Permission was just refused as duplicate.
C2_Witness ==
    /\ last.op = "grant" /\ last.outcome = "DuplicateActiveGrant"
    /\ HasActive(last.args[1], last.args[2])

\* ---- C3
\* C3: a Grant that has passed the endpoint's existing-permission check
\* inserts its row whatever other workers have inserted since (the check is
\* not repeated with the insert), so two interleaved Grants of one pair end
\* with two active Permissions of that pair (C3_Witness).
C3_InsertAfterPassedCheck ==
    [][\A w \in Workers :
          (/\ pc[w] = "service" /\ pc'[w] # "service"
           /\ GrantServiceCheck(req[w].machine_id, req[w].digital_key_id) = "ok")
          => /\ pc'[w] = "mirror"
             /\ Cardinality(PairRows(req[w].user_id, req[w].machine_id)') =
                Cardinality(PairRows(req[w].user_id, req[w].machine_id)) + 1
      ]_vars

\* Two active Permissions of the same (user, machine) pair.
C3_Witness ==
    \E p, q \in DOMAIN perms :
        /\ p # q
        /\ perms[p].is_active /\ perms[q].is_active
        /\ perms[p].user_id = perms[q].user_id
        /\ perms[p].machine_id = perms[q].machine_id

\* ---- C4
\* C4 as stated: a Grant whose user, machine and key exist, whose key is
\* bound to the machine and whose pair has no active Permission succeeds
\* (so it succeeds after the pair's only Permission was revoked).
C4_GrantSucceedsWithoutActive ==
    \A u \in UserIds, m \in MachineIds, k \in KeyIds :
        (/\ u \in users /\ m \in machines /\ k \in DOMAIN keys
         /\ keys[k].machine_id = m
         /\ ~HasActive(u, m)) => GrantOutcome(u, m, k) = "ok"

\* ---- C5
\* C5: right after a successful Grant the new Permission is active with
\* revoked_at null, and the permissions bucket holds its snapshot with
\* is_active = true.
C5_GrantedIsActiveAndMirrored ==
    (last.op = "grant" /\ last.outcome = "ok") =>
        /\ last.id \in DOMAIN perms
        /\ perms[last.id].is_active = TRUE
        /\ perms[last.id].revoked_at = NULL
        /\ <<perms[last.id].user_id, perms[last.id].machine_id,
             perms[last.id].digital_key_id>> = last.args
        /\ last.id \in DOMAIN permFiles
        /\ permFiles[last.id].is_active = TRUE

\* A Grant has just succeeded.
C5_Witness ==
    /\ last.op = "grant" /\ last.outcome = "ok"
    /\ last.id \in DOMAIN permFiles

\* ---- C6
\* C6 as stated: every Grant whose user, machine and key exist and whose key
\* is bound to another machine is answered KeyMachineMismatch, also when the
\* pair already has a Permission.
C6_MismatchAlwaysReported ==
    \A u \in UserIds, m \in MachineIds, k \in KeyIds :
        (/\ u \in users /\ m \in machines /\ k \in DOMAIN keys
         /\ keys[k].machine_id # m) => GrantOutcome(u, m, k) = "KeyMachineMismatch"

\* ---- C7
\* C7: a Grant that fails changes neither the permission table nor the
\* permissions bucket nor its index.
C7_FailedGrantChangesNothing ==
    [][(last'.op = "grant" /\ last'.outcome # "ok")
          => UNCHANGED <<userRows, machineNames, keyValues, perms, permFiles, permIndex>>]_vars

\* A Grant was just refused for a key bound to another machine, while the
\* store holds a Permission and its snapshot.
C7_Witness ==
    /\ last.op = "grant" /\ last.outcome = "KeyMachineMismatch"
    /\ DOMAIN perms # {} /\ DOMAIN permFiles # {}

\* ---- C8
GrantFailures ==
    {"UserNotFound", "MachineNotFound", "KeyNotFound", "KeyMachineMismatch",
     "DuplicateActiveGrant"}

\* The Grant preconditions a request violates, each by the outcome naming it.
ViolatedPreconditions(u, m, k) ==
    (IF u \notin users THEN {"UserNotFound"} ELSE {})
    \cup (IF m \notin machines THEN {"MachineNotFound"} ELSE {})
    \cup (IF k \notin DOMAIN keys THEN {"KeyNotFound"} ELSE {})
    \cup (IF k \in DOMAIN keys /\ keys[k].machine_id # m
          THEN {"KeyMachineMismatch"} ELSE {})
    \cup (IF HasActive(u, m) THEN {"DuplicateActiveGrant"} ELSE {})

\* C8 as stated: a failing Grant reports one of the five outcomes, the five
\* responses differ pairwise, and a request that violates exactly one
\* precondition gets the outcome naming it.
C8_OutcomeNamesTheViolation ==
    /\ \A a, b \in GrantFailures : a # b => HttpResponse(a) # HttpResponse(b)
    /\ \A u \in UserIds, m \in MachineIds, k \in KeyIds :
          /\ GrantOutcome(u, m, k) \in GrantFailures \cup {"ok"}
          /\ \A x \in GrantFailures :
                ViolatedPreconditions(u, m, k) = {x} => GrantOutcome(u, m, k) = x

\* ---- C9
\* C9 as stated (its consequence): no active Permission has a revoked_at.
C9_ActiveMeansNeverRevoked ==
    \A p \in DOMAIN perms : perms[p].is_active => perms[p].revoked_at = NULL

\* ---- C10
\* The lifecycle state of a permission id. DEACTIVATED is the state Update
\* with is_active = false leaves behind (inactive, never revoked).
Lifecycle(ps, p) ==
    IF p \notin DOMAIN ps THEN "NONEXISTENT"
    ELSE IF ps[p].is_active THEN "ACTIVE"
    ELSE IF ps[p].revoked_at = NULL THEN "DEACTIVATED"
    ELSE "REVOKED"

\* C10 as stated: a permission id leaves NONEXISTENT only for ACTIVE and only
\* by a Grant, and a revoked Permission only stays revoked or is deleted:
\* nothing moves it back to active.
C10_LifecycleTransitions ==
    [][\A p \in PermIds :
          /\ Lifecycle(perms, p) = "NONEXISTENT" =>
                \/ Lifecycle(perms', p) = "NONEXISTENT"
                \/ Lifecycle(perms', p) = "ACTIVE" /\ last'.op = "grant"
          /\ Lifecycle(perms, p) = "REVOKED" =>
                Lifecycle(perms', p) \in {"REVOKED", "NONEXISTENT"}
      ]_vars

C12_RevokedIsStamped ==
    (last.op = "revoke_permission" /\ last.outcome = "ok") =>
        /\ last.id \in DOMAIN perms
        /\ perms[last.id].is_active = FALSE
        /\ perms[last.id].revoked_at # NULL
        /\ perms[last.id].revoked_at >= perms[last.id].created_at

\* A Revoke has just been served at a later clock value than the Grant.
C12_Witness ==
    /\ last.op = "revoke_permission" /\ last.outcome = "ok"
    /\ last.id \in DOMAIN perms
    /\ perms[last.id].revoked_at > perms[last.id].created_at

\* ---- C13
\* C13: a Revoke of a Permission that is already revoked succeeds, keeps it
\* inactive and overwrites revoked_at with the time of this call.
C13_RevokeRestamps ==
    [][\A p \in PermIds :
          (/\ last'.op = "revoke_permission" /\ last'.id = p /\ now' = now
           /\ p \in DOMAIN perms
           /\ ~perms[p].is_active /\ perms[p].revoked_at # NULL)
          => /\ last'.outcome = "ok"
             /\ p \in DOMAIN perms'
             /\ perms'[p].is_active = FALSE
             /\ perms'[p].revoked_at = now
      ]_vars

\* A Permission revoked by a Revoke request whose stamp is older than the
\* clock: the state in which the next Revoke of it replaces the stamp.
C13_Witness ==
    /\ last.op = "revoke_permission" /\ last.outcome = "ok"
    /\ last.id \in DOMAIN perms
    /\ ~perms[last.id].is_active
    /\ perms[last.id].revoked_at # NULL
    /\ perms[last.id].revoked_at < now

\* ---- C14
\* C14 as stated: in every reachable state that follows a successful Update
\* or Revoke of a Permission, the permissions bucket holds the snapshot of
\* that Permission and the snapshot's permission_level and is_active are
\* those of the Permission's row.
C14_SnapshotFollowsUpdate ==
    (last.op \in {"update_permission", "revoke_permission"} /\ last.outcome = "ok") =>
        /\ last.id \in DOMAIN perms
        /\ last.id \in DOMAIN permFiles
        /\ permFiles[last.id].permission_level = perms[last.id].permission_level
        /\ permFiles[last.id].is_active = perms[last.id].is_active

\* ---- C15
\* C15: RevokeByUserMachine makes the matched Permission inactive and stamps
\* its revoked_at, changes no other Permission, and leaves the permissions
\* bucket and its index as they were (so the snapshot can still say active:
\* C15_Witness).
C15_RevokeByPairSkipsMirror ==
    [][(last'.op = "revoke_user_machine_access" /\ now' = now) =>
          /\ UNCHANGED <<userRows, machineNames, keyValues, permFiles, permIndex>>
          /\ last'.outcome = "NotFound" =>
                /\ perms' = perms
                /\ PairRows(last'.args[1], last'.args[2]) = {}
          /\ last'.outcome = "ok" =>
                LET p == last'.id
                IN  /\ p \in PairRows(last'.args[1], last'.args[2])
                    /\ DOMAIN perms' = DOMAIN perms
                    /\ \A q \in (DOMAIN perms) \ {p} : perms'[q] = perms[q]
                    /\ perms'[p].is_active = FALSE
                    /\ perms'[p].revoked_at = now
      ]_vars

\* RevokeByUserMachine has just revoked a Permission whose snapshot still
\* says is_active = true.
C15_Witness ==
    /\ last.op = "revoke_user_machine_access" /\ last.outcome = "ok"
    /\ last.id \in DOMAIN perms
    /\ ~perms[last.id].is_active /\ perms[last.id].revoked_at # NULL
    /\ last.id \in DOMAIN permFiles
    /\ permFiles[last.id].is_active = TRUE

\* ---- C16
\* C16: right after a successful Delete(permission_id) the Permission's row
\* is gone, the permissions bucket has no snapshot perm_{permission_id} and
\* the permissions index has no entry for that id.
C16_DeletedEverywhere ==
    (last.op = "delete_permission" /\ last.outcome = "ok") =>
        /\ last.id \notin DOMAIN perms
        /\ last.id \notin DOMAIN permFiles
        /\ \A i \in DOMAIN permIndex : permIndex[i].id # last.id

\* A Delete has just removed one Permission while another one, with its
\* snapshot and index entry, stays.
C16_Witness ==
    /\ last.op = "delete_permission" /\ last.outcome = "ok"
    /\ DOMAIN perms # {}
    /\ DOMAIN permFiles = DOMAIN perms
    /\ Len(permIndex) = 1

\* ---- C17
\* C17: whatever fault strikes the mirror call of a Grant, Update, Revoke or
\* Delete, the caller gets the outcome and the permission table gets the
\* content that the request's validation and its database work alone
\* determine: a mirror fault neither turns a success into an error nor
\* undoes the commit.
C17_MirrorFaultNeverSurfaces ==
    [][LET p     == last'.id
           found == p \in DOMAIN perms
       IN  /\ last'.op = "grant" =>
                LET out == GrantOutcome(last'.args[1], last'.args[2], last'.args[3])
                IN  /\ last'.outcome = out
                    /\ out # "ok" => perms' = perms
                    /\ out = "ok" =>
                          /\ p = NextId(DOMAIN perms)
                          /\ \E l \in Levels :
                                perms' = Put(perms, p, NewPermission(last'.args[1],
                                                last'.args[2], last'.args[3], l))
           /\ last'.op = "update_permission" =>
                /\ last'.outcome = IF found THEN "ok" ELSE "NotFound"
                /\ ~found => perms' = perms
                /\ found => \E l \in OptLevels, a \in OptFlags :
                                perms' = Put(perms, p, UpdatedPermission(perms[p], l, a))
           /\ last'.op = "revoke_permission" =>
                /\ last'.outcome = IF found THEN "ok" ELSE "NotFound"
                /\ ~found => perms' = perms
                /\ found => perms' = Put(perms, p, RevokedPermission(perms[p]))
           /\ last'.op = "delete_permission" =>
                /\ last'.outcome = IF found THEN "ok" ELSE "NotFound"
                /\ ~found => perms' = perms
                /\ found => perms' = Remove(perms, p)
      ]_vars

\* A Grant has just succeeded although its upload failed: the row is
\* committed and the bucket has no snapshot of it.
C17_Witness ==
    /\ last.op = "grant" /\ last.outcome = "ok"
    /\ last.id \in DOMAIN perms
    /\ last.id \notin DOMAIN permFiles

\* ---- C18
EntityRequests ==
    {"create_user", "update_user", "delete_user",
     "create_machine", "update_machine", "delete_machine",
     "create_digital_key", "update_digital_key", "delete_digital_key"}

\* C18: a request that creates, updates or deletes a User, a Machine or a
\* DigitalKey leaves the permission table exactly as it was, also when a
\* Permission references the entity.
C18_EntityRequestsKeepPermissions ==
    [][last'.op \in EntityRequests => perms' = perms]_vars

\* A machine has just been deactivated while an active Permission names it.
C18_Witness ==
    /\ last.op = "update_machine" /\ last.outcome = "ok"
    /\ \E p \in DOMAIN perms :
          /\ perms[p].is_active
          /\ perms[p].machine_id \in machines \ machineActive

\* ---- C19
\* C19 as stated: in every reachable state the machine_id of every stored
\* DigitalKey is the id of a Machine that exists.
C19_KeyMachineExists ==
    \A k \in DOMAIN keys : keys[k].machine_id \in machines

\* ---- C20
\* C20: creating a DigitalKey, or updating a stored one, with a machine_id
\* that no Machine has is answered MachineNotFound, and a request answered
\* MachineNotFound leaves the digital_keys table, the digital-keys bucket and
\* its index as they were.
C20_MachineNotFoundChangesNothing ==
    [][/\ \A n \in KeyNames, m \in MachineIds \ machines :
             /\ CreateDigitalKeyOutcome(n, m) = "MachineNotFound"
             /\ \A k \in DOMAIN keys :
                   UpdateDigitalKeyOutcome(k, n, m) = "MachineNotFound"
       /\ (/\ last'.op \in {"create_digital_key", "update_digital_key"}
           /\ last'.outcome = "MachineNotFound")
          => UNCHANGED <<userRows, machineNames, keyValues, keys, keyFiles, keyIndex>>
      ]_vars

\* An update of a stored, mirrored DigitalKey has just been refused with
\* MachineNotFound.
C20_Witness ==
    /\ last.op = "update_digital_key" /\ last.outcome = "MachineNotFound"
    /\ \E k \in DOMAIN keys : KeyFileName(k, keys[k].key_name) \in DOMAIN keyFiles
    /\ keyIndex # <<>>

\* ---- C21
\* C21 as stated: with one request at a time and no mirror fault, in every
\* reachable state each stored DigitalKey has its snapshot {id}_{name} in the
\* digital-keys bucket, each stored Permission has its snapshot perm_{id} in
\* the permissions bucket, and neither bucket holds a snapshot of an id that
\* has no row.
C21_MirrorMatchesStore ==
    /\ \A k \in DOMAIN keys : KeyFileName(k, keys[k].key_name) \in DOMAIN keyFiles
    /\ \A p \in DOMAIN perms : p \in DOMAIN permFiles
    /\ \A f \in DOMAIN keyFiles : f[1] \in DOMAIN keys
    /\ \A p \in DOMAIN permFiles : p \in DOMAIN perms

\* ---- C22
\* The payload of the mirror call recorded in last.
WrittenKeyPayload(l) == KeySnapshot([key_name |-> l.args[2], machine_id |-> l.args[3]])

\* C22 as stated: after a Mirror Write of an id, a Mirror Read of that id
\* returns the snapshot of that write (whatever Read finds for the id carries
\* the payload just written), and after a successful Mirror Delete of an id
\* a Mirror Read of that id returns NotFound; a Read of a permission id
\* returns the payload last written and NotFound after its Delete.
C22_ReadReturnsLastWrite ==
    [][
        /\ (last'.op = "upload_data_to_cloud") =>
              (/\ DownloadDataFromCloud(keyFiles', keyIndex', last'.id, last'.args[2])
                     = <<WrittenKeyPayload(last')>>
               /\ \A n \in MirrorNames :
                     DownloadDataFromCloud(keyFiles', keyIndex', last'.id, n)
                         \in {<<>>, <<WrittenKeyPayload(last')>>})
        /\ (last'.op = "delete_data_from_cloud" /\ last'.outcome = "True") =>
              (\A n \in MirrorNames :
                  DownloadDataFromCloud(keyFiles', keyIndex', last'.id, n) = <<>>)
        /\ (last'.op = "upload_permission_to_cloud") =>
              (DownloadPermissionFromCloud(permFiles', permIndex', last'.id) = <<last'.args[1]>>)
        /\ (last'.op = "delete_permission_from_cloud" /\ last'.outcome = "True") =>
              (DownloadPermissionFromCloud(permFiles', permIndex', last'.id) = <<>>)
    ]_vars

\* ---- C23
\* The snapshots of the digital-keys bucket that carry the id.
KeySnapshotsOf(files, id) == {f \in DOMAIN files : f[1] = id}

\* The index entries that carry the id.
EntriesOf(index, id) == {i \in DOMAIN index : index[i].id = id}

\* C23: a Mirror Write of an id (and name) whose earlier Writes, if any, used
\* the same name leaves exactly one snapshot for the id, carrying the payload
\* just written, and exactly one index entry for the id; the same holds for
\* a Write to the permissions bucket, upload or in-place update.
C23_WriteIsIdempotentOverwrite ==
    [][
        /\ (/\ last'.op = "upload_data_to_cloud"
            /\ KeySnapshotsOf(keyFiles, last'.id)
                   \subseteq {KeyFileName(last'.id, last'.args[2])}) =>
              (/\ KeySnapshotsOf(keyFiles', last'.id)
                     = {KeyFileName(last'.id, last'.args[2])}
               /\ keyFiles'[KeyFileName(last'.id, last'.args[2])] = WrittenKeyPayload(last')
               /\ Cardinality(EntriesOf(keyIndex', last'.id)) = 1)
        /\ (\/ last'.op = "upload_permission_to_cloud"
            \/ last'.op = "update_permission_in_cloud" /\ last'.outcome = "True") =>
              (/\ last'.id \in DOMAIN permFiles'
               /\ permFiles'[last'.id] = last'.args[1]
               /\ Cardinality(EntriesOf(permIndex', last'.id)) = 1)
    ]_vars

\* A snapshot that existed was written again in place.
C23_Witness ==
    /\ last.op = "update_permission_in_cloud"
    /\ last.outcome = "True"
    /\ permFiles[last.id] = last.args[1]
    /\ Cardinality(EntriesOf(permIndex, last.id)) = 1

\* ---- C24
\* C24: a Mirror Delete that finds no snapshot under the address it is given
\* (in particular, of an id that has no snapshot at all) returns false and
\* leaves the bucket's snapshots and index as they were, whether or not the
\* index holds an entry for the id.
C24_DeleteOfMissingFails ==
    [][
        /\ (/\ last'.op = "delete_data_from_cloud"
            /\ KeyFileName(last'.id, last'.args[2]) \notin DOMAIN keyFiles) =>
              (last'.outcome = "False" /\ keyFiles' = keyFiles /\ keyIndex' = keyIndex)
        /\ (/\ last'.op = "delete_permission_from_cloud"
            /\ last'.id \notin DOMAIN permFiles) =>
              (last'.outcome = "False" /\ permFiles' = permFiles /\ permIndex' = permIndex)
    ]_vars

\* A Delete failed on an id without a snapshot whose index entry survives.
C24_Witness ==
    /\ last.op = "delete_permission_from_cloud"
    /\ last.outcome = "False"
    /\ last.id \notin DOMAIN permFiles
    /\ EntriesOf(permIndex, last.id) # {}

\* ---- C25
\* No two listed snapshots carry the same id.
DistinctIds(listing) == \A r1, r2 \in listing : r1.id = r2.id => r1 = r2

\* C25: with Writes of pairwise distinct ids and successful Deletes of
\* written ids run one after another, each Write of an id not yet in the
\* bucket adds exactly one snapshot to ListAll(bucket) and each successful
\* Delete removes exactly the snapshot of its id, so that after N Writes and
\* M Deletes ListAll holds the N-M snapshots written and not deleted, with
\* pairwise distinct ids; the index is not among them.
C25_ListAllIsWritesMinusDeletes ==
    [][
        /\ (/\ last'.op = "upload_data_to_cloud"
            /\ KeySnapshotsOf(keyFiles, last'.id) = {}
            /\ DistinctIds(ListAllUploads(keyFiles, keyIndex))) =>
              (/\ ListAllUploads(keyFiles', keyIndex')
                     = ListAllUploads(keyFiles, keyIndex)
                         \cup {[id |-> last'.id, original_data |-> WrittenKeyPayload(last')]}
               /\ Cardinality(ListAllUploads(keyFiles', keyIndex'))
                     = Cardinality(ListAllUploads(keyFiles, keyIndex)) + 1
               /\ DistinctIds(ListAllUploads(keyFiles', keyIndex')))
        /\ (/\ last'.op = "delete_data_from_cloud"
            /\ last'.outcome = "True"
            /\ DistinctIds(ListAllUploads(keyFiles, keyIndex))) =>
              (/\ ListAllUploads(keyFiles', keyIndex')
                     = {r \in ListAllUploads(keyFiles, keyIndex) : r.id # last'.id}
               /\ Cardinality(ListAllUploads(keyFiles', keyIndex'))
                     = Cardinality(ListAllUploads(keyFiles, keyIndex)) - 1)
        /\ (/\ last'.op = "upload_permission_to_cloud"
            /\ last'.id \notin DOMAIN permFiles) =>
              (/\ ListAllPermissions(permFiles', permIndex')
                     = ListAllPermissions(permFiles, permIndex)
                         \cup {[id |-> last'.id, original_data |-> last'.args[1]]}
               /\ Cardinality(ListAllPermissions(permFiles', permIndex'))
                     = Cardinality(ListAllPermissions(permFiles, permIndex)) + 1
               /\ DistinctIds(ListAllPermissions(permFiles', permIndex')))
        /\ (/\ last'.op = "delete_permission_from_cloud"
            /\ last'.outcome = "True") =>
              (/\ ListAllPermissions(permFiles', permIndex')
                     = {r \in ListAllPermissions(permFiles, permIndex) : r.id # last'.id}
               /\ Cardinality(ListAllPermissions(permFiles', permIndex'))
                     = Cardinality(ListAllPermissions(permFiles, permIndex)) - 1)
    ]_vars

\* Two ids were written and one of them deleted: one snapshot is listed.
C25_Witness ==
    /\ last.op = "delete_data_from_cloud"
    /\ last.outcome = "True"
    /\ Cardinality(ListAllUploads(keyFiles, keyIndex)) = 1
    /\ \E r \in ListAllUploads(keyFiles, keyIndex) : r.id # last.id

\* ---- C26
\* The ids an index lists.
IndexIds(index) == {index[i].id : i \in DOMAIN index}

\* C26 as stated: the ids in a bucket's index are the ids that have a
\* snapshot in the bucket, and no id has two index entries.
C26_IndexMatchesSnapshots ==
    /\ IndexIds(keyIndex) = {f[1] : f \in DOMAIN keyFiles}
    /\ IndexIds(permIndex) = DOMAIN permFiles
    /\ \A i \in IndexIds(keyIndex) : Cardinality(EntriesOf(keyIndex, i)) = 1
    /\ \A i \in IndexIds(permIndex) : Cardinality(EntriesOf(permIndex, i)) = 1

\* ---- C27
\* Both workers have returned from their Write.
BothDone == \A w \in Workers : pc[w] = "done"

\* The index of the bucket the workers wrote to.
RacedIndex == IF \E w \in Workers : req[w].bucket = "digital-keys" THEN keyIndex ELSE permIndex

\* What worker w stored as the index.
StoredBy(w) ==
    IF req[w].bucket = "digital-keys"
    THEN UpdateMetadataIndex(req[w].index, req[w].id, req[w].key_name)
    ELSE UpdatePermissionMetadataIndex(req[w].index, req[w].id)

\* C27: after two concurrent Writes of distinct ids to one bucket both
\* snapshots exist and the index is what one of the writers stored, that is
\* the index that writer had loaded plus its own entry; the other writer's
\* entry is in it only if it was stored before that load, so the interleaving
\* of C27_Witness loses it.
C27_IndexIsOneWritersCopy ==
    BothDone =>
        /\ \A w \in Workers :
              IF req[w].bucket = "digital-keys"
              THEN KeyFileName(req[w].id, req[w].key_name) \in DOMAIN keyFiles
              ELSE req[w].id \in DOMAIN permFiles
        /\ \E w \in Workers : RacedIndex = StoredBy(w)

\* A lost index update: both snapshots exist, the index has one entry.
C27_Witness ==
    /\ BothDone
    /\ \A w \in Workers : req[w].bucket = "permissions" /\ req[w].id \in DOMAIN permFiles
    /\ Cardinality(DOMAIN permFiles) = 2
    /\ Len(permIndex) = 1

\* ---- C28
\* The contents an index file of the digital-keys bucket may have.
AltKeyIndexes ==
    LET E == {[id |-> i, key_name |-> n] : i \in MirrorIds, n \in MirrorNames}
    IN  {<<>>} \cup {<<e>> : e \in E}
            \cup {<<e1, e2>> : e1 \in {e \in E : e.id = 1}, e2 \in {e \in E : e.id = 2}}

\* The contents an index file of the permissions bucket may have.
AltPermIndexes ==
    LET E == {[id |-> i] : i \in MirrorIds}
    IN  {<<>>} \cup {<<e>> : e \in E} \cup {<<e1, e2>> : e1 \in E, e2 \in E}

\* C28: take any reachable mirror state and any state with the same
\* snapshots and another index; Mirror Read of any id returns the same in
\* both, and Mirror Delete of any id returns the same boolean and leaves the
\* same snapshots in both.
C28_IndexNeverDecides ==
    /\ \A x \in AltKeyIndexes, i \in MirrorIds, n \in MirrorNames :
          /\ DownloadDataFromCloud(keyFiles, x, i, n)
                = DownloadDataFromCloud(keyFiles, keyIndex, i, n)
          /\ DeleteDataResult(keyFiles, x, i, n)
                = DeleteDataResult(keyFiles, keyIndex, i, n)
          /\ DeleteDataFromCloud(keyFiles, x, i, n)[1]
                = DeleteDataFromCloud(keyFiles, keyIndex, i, n)[1]
    /\ \A x \in AltPermIndexes, i \in MirrorIds :
          /\ DownloadPermissionFromCloud(permFiles, x, i)
                = DownloadPermissionFromCloud(permFiles, permIndex, i)
          /\ DeletePermissionResult(permFiles, x, i)
                = DeletePermissionResult(permFiles, permIndex, i)
          /\ DeletePermissionFromCloud(permFiles, x, i)[1]
                = DeletePermissionFromCloud(permFiles, permIndex, i)[1]

\* A snapshot the index does not list is there to be read and deleted.
C28_Witness ==
    \E i \in DOMAIN permFiles :
        /\ EntriesOf(permIndex, i) = {}
        /\ DownloadPermissionFromCloud(permFiles, permIndex, i) = <<permFiles[i]>>
        /\ DeletePermissionResult(permFiles, permIndex, i) = "True"

\* ---- C29
\* The permissions of user u that are active and whose machine exists.
Summarized(u) ==
    {p \in DOMAIN perms :
        perms[p].user_id = u /\ perms[p].is_active /\ perms[p].machine_id \in machines}

\* The body holds exactly one entry for each permission of Q.
OneEntryEach(body, Q) ==
    \E f \in [DOMAIN body -> Q] :
        /\ \A p \in Q : Cardinality({i \in DOMAIN body : f[i] = p}) = 1
        /\ \A i \in DOMAIN body :
              /\ body[i].user_id = perms[f[i]].user_id
              /\ body[i].machine_id = perms[f[i]].machine_id
              /\ body[i].permission_level = perms[f[i]].permission_level
              /\ body[i].is_active = perms[f[i]].is_active
              /\ body[i].created_at = perms[f[i]].created_at

\* C29 as stated: for every user id the summary holds exactly one entry for
\* each active permission of that user id whose machine exists.
C29_Original ==
    \A u \in UserIds :
        OneEntryEach(GetUserAccessSummaryResponse(users, machines, perms, u).body,
                     Summarized(u))

\* The summary request changes neither the entity store nor the mirror.
SummaryReadsOnly ==
    [][last'.op = "get_user_access_summary" =>
         UNCHANGED <<userRows, machineNames, keyValues, users, machines, machineActive, keys, perms,
                     permFiles, permIndex, keyFiles, keyIndex>>]_vars

\* C29 amended: for a user that exists the summary holds exactly one entry
\* for each of the user's active permissions whose machine exists, and none
\* for inactive permissions or permissions of a deleted machine; for a user
\* id without a user it answers NotFound with no entry, even if permissions
\* still carry that user id; the request changes neither store.
C29_SummaryOfExistingUser ==
    /\ [](\A u \in UserIds :
            LET r == GetUserAccessSummaryResponse(users, machines, perms, u)
            IN  IF u \in users
                THEN r.status = 200 /\ OneEntryEach(r.body, Summarized(u))
                ELSE r.status = 404 /\ r.body = <<>>)
    /\ SummaryReadsOnly

\* A summary was served that skipped an inactive permission or one whose
\* machine is gone.
C29_Witness ==
    /\ last.op = "get_user_access_summary"
    /\ last.outcome = "ok"
    /\ last.id = 1
    /\ \E p, q \in DOMAIN perms :
          /\ perms[p].user_id = last.args[1] /\ perms[p].is_active
          /\ perms[p].machine_id \in machines
          /\ perms[q].user_id = last.args[1]
          /\ (~perms[q].is_active \/ perms[q].machine_id \notin machines)

\* ---- C30
\* No two rows of a table share a value of a unique column.
NaturalKeysUnique ==
    /\ \A u, o \in DOMAIN userRows :
          u # o => /\ userRows[u].username # userRows[o].username
                   /\ userRows[u].email # userRows[o].email
    /\ \A m, o \in DOMAIN machineNames : m # o => machineNames[m] # machineNames[o]
    /\ \A k, j \in DOMAIN keys : k # j => keys[k].key_name # keys[j].key_name
    /\ \A k, j \in DOMAIN keyValues : k # j => keyValues[k] # keyValues[j]

\* Every request whose row would share a unique value with another row is
\* answered with an error.
ViolatingRequestsRejected ==
    /\ \A n \in Usernames, e \in Emails :
          (\E u \in DOMAIN userRows : userRows[u].username = n \/ userRows[u].email = e)
              => PostUserOutcome(n, e) # "ok"
    /\ \A u \in users, n \in Opt(Usernames), e \in Opt(Emails) :
          (\E o \in (DOMAIN userRows) \ {u} :
              \/ n # <<>> /\ userRows[o].username = n[1]
              \/ n = <<>> /\ userRows[o].username = userRows[u].username
              \/ e # <<>> /\ userRows[o].email = e[1]
              \/ e = <<>> /\ userRows[o].email = userRows[u].email)
              => PutUserOutcome(u, n, e) # "ok"
    /\ \A n \in MachineNameSet :
          (\E m \in DOMAIN machineNames : machineNames[m] = n)
              => PostMachineOutcome(n) # "ok"
    /\ \A m \in machines, n \in MachineNameSet :
          (\E o \in (DOMAIN machineNames) \ {m} : machineNames[o] = n)
              => PutMachineOutcome(m, <<n>>) # "ok"
    /\ \A n \in KeyNames, v \in KeyValueSet, m \in RowIds :
          (\/ \E k \in DOMAIN keys : keys[k].key_name = n
           \/ \E k \in DOMAIN keyValues : keyValues[k] = v)
              => PostDigitalKeyOutcome(n, v, m) # "ok"
    /\ \A k \in DOMAIN keys, n \in KeyNames, v \in KeyValueSet, m \in RowIds :
          (\/ \E j \in (DOMAIN keys) \ {k} : keys[j].key_name = n
           \/ \E j \in (DOMAIN keyValues) \ {k} : keyValues[j] = v)
              => PutDigitalKeyOutcome(k, n, v, m) # "ok"

\* A create or update answered with an error leaves every table as it was.
RejectedChangesNoTable ==
    [][(/\ last'.op \in {"create_user", "update_user", "create_machine",
                          "update_machine", "create_digital_key", "update_digital_key"}
        /\ last'.outcome # "ok") =>
          UNCHANGED <<users, userRows, machines, machineActive, machineNames,
                      keys, keyValues, perms>>]_vars

\* C30: in every reachable state usernames, emails, machine names, key names
\* and key values are unique within their table; a create or update whose
\* row would share one of them with another row is rejected, and a rejected
\* create or update leaves the entity store unchanged.
C30_NaturalKeysStayUnique ==
    /\ [](NaturalKeysUnique /\ ViolatingRequestsRejected)
    /\ RejectedChangesNoTable

\* An update that would have given two users one username or email was
\* rejected at commit.
C30_Witness ==
    /\ last.op = "update_user"
    /\ last.outcome = "IntegrityError"
    /\ Cardinality(DOMAIN userRows) = 2
    /\ Cardinality(DOMAIN keyValues) = 2

\* ---- C31
\* C31: also in states reached through concurrent Grants, once
\* RevokeByUserMachine(user_id, machine_id) has returned success no Permission
\* of (user_id, machine_id) is active.
C31_RevokedPairHasNoActive ==
    [][\A u \in UserIds, m \in MachineIds :
          (RevokeUserMachineAccess(u, m) /\ last'.outcome = "ok")
              => ~(\E p \in DOMAIN perms' :
                      /\ perms'[p].user_id = u /\ perms'[p].machine_id = m
                      /\ perms'[p].is_active)]_vars

\* ---- C32
\* Worker w has finished a request of the given kinds on permission p.
Finished(w, ops, p) == pc[w] = "done" /\ req[w].op \in ops /\ req[w].id = p

\* C32: when Delete(permission_id) ran concurrently with an Update or a Revoke
\* of the same permission and all of them have finished, the permissions
\* bucket holds no snapshot perm_{permission_id}.
C32_DeleteWinsOverUpdate ==
    \A p \in PermIds, w, o \in Workers :
        (/\ Finished(w, {"delete_permission"}, p)
         /\ Finished(o, {"update_permission", "revoke_permission"}, p))
            => p \notin DOMAIN permFiles

\* ---- C33
\* C33: when an Update and a Revoke of the same permission ran concurrently
\* and both have finished, the is_active of the snapshot perm_{id} equals the
\* is_active of the Permission record.
C33_SnapshotActiveMatchesStore ==
    \A p \in PermIds, w, o \in Workers :
        (/\ Finished(w, {"update_permission"}, p)
         /\ Finished(o, {"revoke_permission"}, p)
         /\ p \in DOMAIN perms /\ p \in DOMAIN permFiles)
            => permFiles[p].is_active = perms[p].is_active

\* ---- C34
\* C34: every Permission a Grant inserts references a User, a Machine and a
\* DigitalKey bound to that machine that all exist at the moment of the
\* insert, also when deletions of those entities or a rebinding update of
\* the key are served while the Grant is in progress.
C34_InsertedReferencesExist ==
    [][\A w \in Workers :
          (GrantCommit(w) /\ pc'[w] = "mirror")
              => /\ req[w].user_id \in users
                 /\ req[w].machine_id \in machines
                 /\ req[w].digital_key_id \in DOMAIN keys
                 /\ keys[req[w].digital_key_id].machine_id = req[w].machine_id]_vars

\* ---- C35
\* C35: an update of a DigitalKey that fails, for whatever reason (key not
\* found, machine not found, key_name or key_value conflict at commit), leaves
\* the DigitalKey records, the digital-keys snapshots and the index unchanged.
C35_FailedKeyUpdateChangesNothing ==
    [][(last'.op = "update_digital_key" /\ last'.outcome # "ok")
          => (keys' = keys /\ keyFiles' = keyFiles /\ keyIndex' = keyIndex)]_vars

\* ---- C36
\* No request is part-way through its steps.
Quiescent == \A w \in Workers : pc[w] \in {"idle", "done"}

\* C36: in every reachable state (taken between requests: no update is
\* part-way through), also those reached by concurrent updates that rename
\* the same key, the digital-keys bucket holds at most one snapshot per
\* DigitalKey id, and it is the file of the key's current key_name.
C36_OneSnapshotUnderCurrentName ==
    Quiescent =>
        \A k \in DOMAIN keys :
            KeySnapshotsOf(keyFiles, k) \subseteq {KeyFileName(k, keys[k].key_name)}

\* ---- C37
ByIdRequests == {"update_permission", "revoke_permission", "delete_permission"}

\* The entity store, the mirror snapshots and the index files.
Stores == <<users, machines, machineActive, keys, perms, userRows, machineNames,
            keyValues, permFiles, permIndex, keyFiles, keyIndex>>

\* C37: Update, Revoke and Delete of a permission_id that has no record, and
\* RevokeByUserMachine of a pair that has no Permission, answer NotFound and
\* leave the entity store, the mirror snapshots and the index unchanged, also
\* when the mirror still holds a snapshot of that id; a request answers
\* NotFound in no other case.
C37_MissingPermissionIsNotFound ==
    [][/\ last'.op \in ByIdRequests =>
             /\ last'.outcome = "NotFound" <=> last'.id \notin DOMAIN perms
             /\ last'.outcome = "NotFound" => UNCHANGED Stores
       /\ last'.op = "revoke_user_machine_access" =>
             /\ last'.outcome = "NotFound"
                   <=> UserMachineRows(last'.args[1], last'.args[2]) = {}
             /\ last'.outcome = "NotFound" => UNCHANGED Stores
      ]_vars

\* An Update, Revoke or Delete has just answered NotFound for an id that has
\* no record and whose snapshot is still in the permissions bucket.
C37_Witness ==
    /\ last.op \in ByIdRequests
    /\ last.outcome = "NotFound"
    /\ last.id \notin DOMAIN perms
    /\ last.id \in DOMAIN permFiles

\* ---- C38
\* The update just served succeeded and changed the key_name of key k.
Renamed(k) ==
    /\ last'.op = "update_digital_key" /\ last'.outcome = "ok"
    /\ k \in DOMAIN keys /\ k \in DOMAIN keys'
    /\ keys'[k].key_name # keys[k].key_name

\* After the step: one snapshot of key k, in the file of its new name, whose
\* original_data is the updated record, and one index entry of id k.
OneSnapshotOfNewName(k) ==
    /\ KeySnapshotsOf(keyFiles', k) = {KeyFileName(k, keys'[k].key_name)}
    /\ keyFiles'[KeyFileName(k, keys'[k].key_name)] = KeySnapshot(keys'[k])
    /\ Cardinality(EntriesOf(keyIndex', k)) = 1
    /\ \A i \in EntriesOf(keyIndex', k) : keyIndex'[i].key_name = keys'[k].key_name

\* C38 as stated: after a successful update that changes the key_name (one
\* request at a time, no I/O failure) the bucket holds no snapshot under
\* {id}_{old_name}, exactly one under {id}_{new_name} whose original_data is
\* the updated record, and the index holds exactly one entry of the id.
C38_Original ==
    [][\A k \in TwoKeyIds :
          Renamed(k) => /\ KeyFileName(k, keys[k].key_name) \notin DOMAIN keyFiles'
                        /\ OneSnapshotOfNewName(k)]_vars

\* C38 amended: after such an update the bucket holds exactly one snapshot of
\* the id, in the file of the new name, with the updated record as
\* original_data, and the index holds exactly one entry of the id, naming
\* the new key_name; the file of the old name is gone unless the old and the
\* new name give the same file name (they differ only in spaces against
\* underscores), in which case that file has been removed and rewritten.
C38_RenameMovesSnapshot ==
    [][\A k \in TwoKeyIds :
          Renamed(k) =>
             /\ OneSnapshotOfNewName(k)
             /\ KeyFileName(k, keys[k].key_name) \in DOMAIN keyFiles'
                   <=> KeyFileName(k, keys[k].key_name) = KeyFileName(k, keys'[k].key_name)
      ]_vars

\* Key 1, created as "k 1", has been renamed to "k_1" by a successful update
\* and its one snapshot carries the new name.
C38_Witness ==
    /\ last.op = "update_digital_key" /\ last.outcome = "ok"
    /\ 1 \in DOMAIN keys /\ keys[1].key_name = "k_1"
    /\ KeySnapshotsOf(keyFiles, 1) = {KeyFileName(1, "k_1")}
    /\ keyFiles[KeyFileName(1, "k_1")].key_name = "k_1"

====
